---- MODULE Spec2Model ----
(***************************************************************************)
(* Model of the Cloud Clipboard crypto core: the Argon2id key derivation   *)
(* (Kdf), the ratchet with its static single-slot cache and the AES-GCM    *)
(* framing of metadata and files (SymmetricEncryption).                    *)
(*                                                                         *)
(* The primitive providers (SHA-256, Argon2id, AES-GCM, the random source) *)
(* are modelled as ideal: their outputs are symbolic terms over their      *)
(* inputs, so two outputs are equal exactly when the inputs are equal.     *)
(***************************************************************************)
EXTENDS Integers, Sequences, FiniteSets, TLC

(***************************************************************************)
(* Bounds of the model.                                                    *)
(***************************************************************************)
\* A JavaScript number n is represented by the integer n * Den, so that the
\* non-integral ratchet counts 1/Den, 2/Den, ... can be passed as well.
Den == 2
\* The largest integral ratchet count requested.
MaxIndex == 3
\* The per-generation KDF call counters saturate here.
CallCap == 3

Num(i) == i * Den

Min(a, b) == IF a < b THEN a ELSE b

(***************************************************************************)
(* Values.  A byte array that stands for key material is a symbolic tuple  *)
(* whose first element names the function that produced it; `undefined' is *)
(* a value of its own, for strings and for byte arrays.                    *)
(***************************************************************************)
UndefinedStr == "<undefined>"
UndefinedBytes == <<"undefined">>

Utf8(s) == <<"utf8", s>>

\* Kdf.hash: mem, time, hashLen
StrongMem == 19456
StrongTime == 2
\* Kdf.fastHash: mem, time
FastMem == 10
FastTime == 1
HashLen == 32
\* SHA-256 digest length in bytes
DigestLen == 32

\* argon2.hash({pass, salt, type: Argon2id, mem, time, parallelism: 1, hashLen}).hash
Argon2Hash(pass, salt, mem, time, hashLen) ==
    <<"argon2id", pass, salt, mem, time, hashLen>>

ByteLength(b) ==
    CASE b[1] = "argon2id" -> b[6]
      [] b[1] = "sha256" -> DigestLen
      [] b[1] = "base64" -> b[3]
      [] OTHER -> 0

Ok(v) == [ok |-> TRUE, v |-> v, err |-> ""]
Err(e) == [ok |-> FALSE, v |-> UndefinedBytes, err |-> e]

(***************************************************************************)
(* Kdf                                                                     *)
(***************************************************************************)
HashSalt(salt) == <<"sha256", Utf8(salt)>>

ErrMissingSaltHash == "Either salt or hashedSalt must be provided."
ErrMissingSaltFast == "Either salt or saltHash must be provided."

\* Variant: a call without salt and hashed salt hashes with the empty salt.
KdfHashDefaultSalt(keyphrase, salt, hashedSalt) ==
    LET saltHash == IF hashedSalt # UndefinedBytes THEN hashedSalt
                    ELSE IF salt # UndefinedStr THEN HashSalt(salt)
                    ELSE HashSalt("")
    IN  Ok(Argon2Hash(Utf8(keyphrase), saltHash, StrongMem, StrongTime, HashLen))

\* Variant: a raw salt is handed to Argon2id as it is, not as its digest.
KdfHashRawSalt(keyphrase, salt, hashedSalt) ==
    IF salt = UndefinedStr /\ hashedSalt = UndefinedBytes
    THEN Err(ErrMissingSaltHash)
    ELSE LET saltHash == IF hashedSalt # UndefinedBytes THEN hashedSalt
                         ELSE Utf8(salt)
         IN  Ok(Argon2Hash(Utf8(keyphrase), saltHash, StrongMem, StrongTime, HashLen))

KdfHash(keyphrase, salt, hashedSalt) ==
    IF salt = UndefinedStr /\ hashedSalt = UndefinedBytes
    THEN Err(ErrMissingSaltHash)
    ELSE LET saltHash == IF hashedSalt # UndefinedBytes THEN hashedSalt
                         ELSE HashSalt(salt)
         IN  Ok(Argon2Hash(Utf8(keyphrase), saltHash, StrongMem, StrongTime, HashLen))

KdfFastHash(key, salt, hashedSalt) ==
    IF salt = UndefinedStr /\ hashedSalt = UndefinedBytes
    THEN Err(ErrMissingSaltFast)
    ELSE LET saltHash == IF hashedSalt # UndefinedBytes THEN hashedSalt
                         ELSE HashSalt(salt)
         IN  Ok(Argon2Hash(key, saltHash, FastMem, FastTime, HashLen))

\* What Kdf.hash and Kdf.fastHash call on their providers, in order: SHA-256
\* when the salt is not yet hashed, then argon2.hash; nothing when the call
\* is refused.
Provider(fn, pass, salt) == [fn |-> fn, pass |-> pass, salt |-> salt]
KdfProviderCalls(pass, salt, hashedSalt) ==
    IF salt = UndefinedStr /\ hashedSalt = UndefinedBytes THEN <<>>
    ELSE LET saltHash == IF hashedSalt # UndefinedBytes THEN hashedSalt
                         ELSE HashSalt(salt)
         IN  (IF hashedSalt # UndefinedBytes THEN <<>>
              ELSE <<Provider("sha256", Utf8(salt), UndefinedBytes)>>)
             \o <<Provider("argon2id", pass, saltHash)>>

\* One entry of the log of calls a request makes on its Kdf: the method, its
\* three arguments, and the chain position the call computes (0: hashSalt).
KdfCall(fn, pass, salt, hashedSalt, i) ==
    [fn |-> fn, pass |-> pass, salt |-> salt, hashedSalt |-> hashedSalt, i |-> i]

(***************************************************************************)
(* The static ratchet cache: undefined, or {key, salt, hashes}.            *)
(***************************************************************************)
EmptyMap == [x \in {} |-> UndefinedBytes]

UndefinedCache == [defined |-> FALSE, key |-> "", salt |-> "", hashes |-> EmptyMap]

MapHas(hashes, n) == n \in DOMAIN hashes
MapGet(hashes, n) == IF n \in DOMAIN hashes THEN hashes[n] ELSE UndefinedBytes
MapSet(hashes, n, v) ==
    [x \in (DOMAIN hashes) \cup {n} |-> IF x = n THEN v ELSE hashes[x]]

\* Variant: the salt is not compared.
InitalizeRatchetCacheKeyOnly(cache, key, salt) ==
    IF ~cache.defined \/ cache.key # key
    THEN [defined |-> TRUE, key |-> key, salt |-> salt, hashes |-> EmptyMap]
    ELSE cache

\* Variant: a new pair takes over the hashes of the old one.
InitalizeRatchetCacheKeepHashes(cache, key, salt) ==
    IF ~cache.defined \/ cache.key # key \/ cache.salt # salt
    THEN [defined |-> TRUE, key |-> key, salt |-> salt, hashes |-> cache.hashes]
    ELSE cache

\* Variant: every call starts with a cache of its own.
InitalizeRatchetCacheAlways(cache, key, salt) ==
    [defined |-> TRUE, key |-> key, salt |-> salt, hashes |-> EmptyMap]

InitalizeRatchetCache(cache, key, salt) ==
    IF ~cache.defined \/ cache.key # key \/ cache.salt # salt
    THEN [defined |-> TRUE, key |-> key, salt |-> salt, hashes |-> EmptyMap]
    ELSE cache

ErrRatchetCount == "Ratchet count must be larger than 0"

RatchetResult(cache, ok, err, key, calls) ==
    [cache |-> cache, ok |-> ok, err |-> err, key |-> key, calls |-> calls]

\* Variant: the loop stops one step early (i < ratchetCount).
RECURSIVE RatchetLoopOffByOne(_, _, _, _, _, _)
RatchetLoopOffByOne(cache, ratchetedKey, saltHash, i, ratchetCount, calls) ==
    IF Num(i) < ratchetCount
    THEN LET hit == MapHas(cache.hashes, Num(i))
             next == IF hit THEN MapGet(cache.hashes, Num(i))
                     ELSE KdfFastHash(ratchetedKey, UndefinedStr, saltHash).v
             calls2 == IF hit THEN calls
                       ELSE Append(calls, KdfCall("fastHash", ratchetedKey,
                                                  UndefinedStr, saltHash, i))
         IN  RatchetLoopOffByOne([cache EXCEPT !.hashes = MapSet(@, Num(i), next)],
                                 next, saltHash, i + 1, ratchetCount, calls2)
    ELSE RatchetResult(cache, TRUE, "", ratchetedKey, calls)

\* Variant: the loop does not look into the cache.
RECURSIVE RatchetLoopRecompute(_, _, _, _, _, _)
RatchetLoopRecompute(cache, ratchetedKey, saltHash, i, ratchetCount, calls) ==
    IF Num(i) <= ratchetCount
    THEN LET next == KdfFastHash(ratchetedKey, UndefinedStr, saltHash).v
             calls2 == Append(calls, KdfCall("fastHash", ratchetedKey,
                                             UndefinedStr, saltHash, i))
         IN  RatchetLoopRecompute([cache EXCEPT !.hashes = MapSet(@, Num(i), next)],
                                  next, saltHash, i + 1, ratchetCount, calls2)
    ELSE RatchetResult(cache, TRUE, "", ratchetedKey, calls)

\* Variant: every step hashes the first key of the chain, not the previous one.
RECURSIVE RatchetLoopFromFirst(_, _, _, _, _, _)
RatchetLoopFromFirst(cache, ratchetedKey, saltHash, i, ratchetCount, calls) ==
    IF Num(i) <= ratchetCount
    THEN LET hit == MapHas(cache.hashes, Num(i))
             firstKey == MapGet(cache.hashes, Num(1))
             next == IF hit THEN MapGet(cache.hashes, Num(i))
                     ELSE KdfFastHash(firstKey, UndefinedStr, saltHash).v
             calls2 == IF hit THEN calls
                       ELSE Append(calls, KdfCall("fastHash", firstKey,
                                                  UndefinedStr, saltHash, i))
         IN  RatchetLoopFromFirst([cache EXCEPT !.hashes = MapSet(@, Num(i), next)],
                                  next, saltHash, i + 1, ratchetCount, calls2)
    ELSE RatchetResult(cache, TRUE, "", ratchetedKey, calls)

\* The for loop of ratchetKey, from i on.
RECURSIVE RatchetLoop(_, _, _, _, _, _)
RatchetLoop(cache, ratchetedKey, saltHash, i, ratchetCount, calls) ==
    IF Num(i) <= ratchetCount
    THEN LET hit == MapHas(cache.hashes, Num(i))
             next == IF hit THEN MapGet(cache.hashes, Num(i))
                     ELSE KdfFastHash(ratchetedKey, UndefinedStr, saltHash).v
             calls2 == IF hit THEN calls
                       ELSE Append(calls, KdfCall("fastHash", ratchetedKey,
                                                  UndefinedStr, saltHash, i))
         IN  RatchetLoop([cache EXCEPT !.hashes = MapSet(@, Num(i), next)],
                         next, saltHash, i + 1, ratchetCount, calls2)
    ELSE RatchetResult(cache, TRUE, "", ratchetedKey, calls)

\* ratchetKey after its check of ratchetCount.
RatchetSteps(cache, key, salt, ratchetCount) ==
    LET c0 == InitalizeRatchetCache(cache, key, salt) IN
    IF MapHas(c0.hashes, ratchetCount)
    THEN RatchetResult(c0, TRUE, "", MapGet(c0.hashes, ratchetCount), <<>>)
    ELSE LET saltHash == HashSalt(salt)
             hit == MapHas(c0.hashes, Num(1))
             first == IF hit THEN MapGet(c0.hashes, Num(1))
                      ELSE KdfHash(key, UndefinedStr, saltHash).v
             calls == <<KdfCall("hashSalt", UndefinedBytes, salt, UndefinedBytes, 0)>>
                      \o (IF hit THEN <<>>
                          ELSE <<KdfCall("hash", Utf8(key), UndefinedStr, saltHash, 1)>>)
             c1 == [c0 EXCEPT !.hashes = MapSet(@, Num(1), first)]
         IN  RatchetLoop(c1, first, saltHash, 2, ratchetCount, calls)

\* Variant: the cache is initialized before ratchetCount is checked.
RatchetKeyInitFirst(cache, key, salt, ratchetCount) ==
    IF ratchetCount <= 0
    THEN RatchetResult(InitalizeRatchetCache(cache, key, salt), FALSE, ErrRatchetCount,
                       UndefinedBytes, <<>>)
    ELSE RatchetSteps(cache, key, salt, ratchetCount)

RatchetKey(cache, key, salt, ratchetCount) ==
    IF ratchetCount <= 0
    THEN RatchetResult(cache, FALSE, ErrRatchetCount, UndefinedBytes, <<>>)
    ELSE RatchetSteps(cache, key, salt, ratchetCount)

\* Variant: clearRatchetCache leaves an empty cache object behind.
ClearedCacheEmptyObject ==
    [defined |-> TRUE, key |-> "", salt |-> "", hashes |-> EmptyMap]

ClearedCache == UndefinedCache

(***************************************************************************)
(* JavaScript values (the shapes a Metadata argument can take) and JSON.   *)
(* A value is a record {t, v, members}: t is its type, v the spelling of a *)
(* primitive, members the own properties of an object in insertion order,  *)
(* each {name, value} with a primitive value.                              *)
(***************************************************************************)
JsPrim(t, v) == [t |-> t, v |-> v, members |-> <<>>]
JsString(s) == JsPrim("string", s)
JsNumber(s) == JsPrim("number", s)
JsNaN == JsPrim("number", "NaN")
JsBoolean(s) == JsPrim("boolean", s)
JsNull == JsPrim("null", "")
JsUndefined == JsPrim("undefined", "")
JsObject(members) == [t |-> "object", v |-> "", members |-> members]
Member(name, value) == [name |-> name, value |-> value]

\* typeof x
TypeOf(x) == IF x.t = "null" THEN "object" ELSE x.t

\* ToBoolean(x)
Truthy(x) ==
    CASE x.t = "object" -> TRUE
      [] x.t = "string" -> x.v # ""
      [] x.t = "number" -> x.v \notin {"0", "NaN"}
      [] x.t = "boolean" -> x.v = "true"
      [] OTHER -> FALSE

\* x.name for a value that is neither null nor undefined
GetProp(x, name) ==
    IF x.t = "object" /\ \E i \in 1..Len(x.members) : x.members[i].name = name
    THEN x.members[CHOOSE i \in 1..Len(x.members) : x.members[i].name = name].value
    ELSE JsUndefined

\* A JSON text is a sequence of lexical units, each one byte of the encoded
\* text in this model: the braces, one unit per member, one per scalar.
Unit(k, name, j, v) == [k |-> k, name |-> name, j |-> j, v |-> v]
LBrace == Unit("lbrace", "", "", "")
RBrace == Unit("rbrace", "", "", "")
\* One byte of a file.
FileByte(v) == Unit("byte", "", "", v)

\* The JSON spelling of a primitive: NaN becomes null.
ScalarJson(x) ==
    CASE x.t = "string" -> [j |-> "string", v |-> x.v]
      [] x.t = "number" -> IF x.v = "NaN" THEN [j |-> "null", v |-> ""]
                           ELSE [j |-> "number", v |-> x.v]
      [] x.t = "boolean" -> [j |-> "boolean", v |-> x.v]
      [] OTHER -> [j |-> "null", v |-> ""]

\* Variant: a member whose value is null is left out as well.
RECURSIVE MemberUnitsDropNull(_)
MemberUnitsDropNull(members) ==
    IF members = <<>> THEN <<>>
    ELSE LET m == Head(members) IN
         (IF m.value.t \in {"undefined", "null"} THEN <<>>
          ELSE <<Unit("member", m.name, ScalarJson(m.value).j, ScalarJson(m.value).v)>>)
         \o MemberUnitsDropNull(Tail(members))

\* The members of an object as JSON: a member whose value is undefined is left out.
RECURSIVE MemberUnits(_)
MemberUnits(members) ==
    IF members = <<>> THEN <<>>
    ELSE LET m == Head(members) IN
         (IF m.value.t = "undefined" THEN <<>>
          ELSE <<Unit("member", m.name, ScalarJson(m.value).j, ScalarJson(m.value).v)>>)
         \o MemberUnits(Tail(members))

\* JSON.stringify(x): a text, or undefined for undefined.
JsonStringify(x) ==
    CASE x.t = "undefined" -> [defined |-> FALSE, text |-> <<>>]
      [] x.t = "object" ->
            [defined |-> TRUE, text |-> <<LBrace>> \o MemberUnits(x.members) \o <<RBrace>>]
      [] OTHER ->
            [defined |-> TRUE,
             text |-> <<Unit("scalar", "", ScalarJson(x).j, ScalarJson(x).v)>>]

\* new TextEncoder().encode(s): the bytes of s, none for undefined.
TextEncode(s) == IF s.defined THEN s.text ELSE <<>>
\* new TextDecoder().decode(bytes)
TextDecode(bytes) == bytes

ScalarValue(u) ==
    CASE u.j = "string" -> JsString(u.v)
      [] u.j = "number" -> JsNumber(u.v)
      [] u.j = "boolean" -> JsBoolean(u.v)
      [] OTHER -> JsNull

ErrSyntax == "SyntaxError"

\* JSON.parse(text)
JsonParse(text) ==
    IF Len(text) = 1 /\ text[1].k = "scalar"
    THEN [ok |-> TRUE, v |-> ScalarValue(text[1]), err |-> ""]
    ELSE IF /\ Len(text) >= 2
            /\ text[1] = LBrace
            /\ text[Len(text)] = RBrace
            /\ \A i \in 2..(Len(text) - 1) : text[i].k = "member"
    THEN [ok |-> TRUE,
          v |-> JsObject([i \in 1..(Len(text) - 2) |->
                            Member(text[i + 1].name, ScalarValue(text[i + 1]))]),
          err |-> ""]
    ELSE [ok |-> FALSE, v |-> JsUndefined, err |-> ErrSyntax]

(***************************************************************************)
(* base64-js.  A base64 string stands for the bytes it decodes to; the     *)
(* strings of the model and the lengths of their decodings are listed.     *)
(***************************************************************************)
B64Key32A == "MzItYnl0ZS1jb250ZW50LWtleS1iYXNlNjQtZW5jb2Q="
B64Key32B == "ICEiIyQlJicoKSorLC0uLzAxMjM0NTY3ODk6Ozw9Pj8="
B64Key16 == "yMnKy8zNzs/Q0dLT1NXW1w=="
B64Bad == "not-base64"

ErrBase64 == "Invalid string. Length must be a multiple of 4"
ErrType == "TypeError"

\* b64.indexOf("="), counted from 0; -1 when there is none
IndexOfPad(s) ==
    LET hits == {i \in 1..Len(s) : SubSeq(s, i, i) = "="}
    IN  IF hits = {} THEN -1
        ELSE (CHOOSE i \in hits : \A j \in hits : i <= j) - 1

\* The byte length base64js computes from the text; -1 when it throws
B64Length(s) ==
    LET len == Len(s)
        found == IndexOfPad(s)
        validLen == IF found = -1 THEN len ELSE found
        placeHoldersLen == IF validLen = len THEN 0 ELSE 4 - (validLen % 4)
    IN  IF len % 4 > 0 THEN -1
        ELSE (((validLen + placeHoldersLen) * 3) \div 4) - placeHoldersLen

Lookup == "ABCDEFGHIJKLMNOPQRSTUVWXYZabcdefghijklmnopqrstuvwxyz0123456789+/"

LookupChar(i) == SubSeq(Lookup, i + 1, i + 1)

TripletToBase64(num) ==
    LookupChar((num \div 262144) % 64) \o LookupChar((num \div 4096) % 64)
        \o LookupChar((num \div 64) % 64) \o LookupChar(num % 64)

RECURSIVE EncodeChunk(_, _, _)
EncodeChunk(uint8, start, end) ==
    IF start >= end THEN ""
    ELSE TripletToBase64(uint8[start] * 65536 + uint8[start + 1] * 256 + uint8[start + 2])
             \o EncodeChunk(uint8, start + 3, end)

\* Variant: the encoder leaves the padding out.
FromByteArrayUnpadded(uint8) ==
    LET len == Len(uint8)
        extraBytes == len % 3
        main == EncodeChunk(uint8, 1, len - extraBytes + 1)
    IN  IF extraBytes = 1
        THEN main \o LookupChar(uint8[len] \div 4) \o LookupChar((uint8[len] * 16) % 64)
        ELSE IF extraBytes = 2
        THEN LET tmp == uint8[len - 1] * 256 + uint8[len]
             IN  main \o LookupChar(tmp \div 1024) \o LookupChar((tmp \div 16) % 64)
                      \o LookupChar((tmp * 4) % 64)
        ELSE main

\* base64js.fromByteArray(uint8)
FromByteArray(uint8) ==
    LET len == Len(uint8)
        extraBytes == len % 3
        main == EncodeChunk(uint8, 1, len - extraBytes + 1)
    IN  IF extraBytes = 1
        THEN main \o LookupChar(uint8[len] \div 4) \o LookupChar((uint8[len] * 16) % 64)
                  \o "=="
        ELSE IF extraBytes = 2
        THEN LET tmp == uint8[len - 1] * 256 + uint8[len]
             IN  main \o LookupChar(tmp \div 1024) \o LookupChar((tmp \div 16) % 64)
                      \o LookupChar((tmp * 4) % 64) \o "="
        ELSE main

\* base64js.toByteArray(x), x a JavaScript value
ToByteArray(x) ==
    IF x.t # "string" THEN Err(ErrType)
    ELSE IF B64Length(x.v) < 0 THEN Err(ErrBase64)
    ELSE Ok(<<"base64", x.v, B64Length(x.v)>>)

(***************************************************************************)
(* The random source and AES-GCM.                                          *)
(***************************************************************************)
\* new Uint8Array(16) in encrypt
IvLen == 16
\* value.slice(0, 16) and value.slice(16) in decrypt
IvSplit == 16
\* AES-GCM's default tag length in bytes
TagLen == 16

\* crypto.getRandomValues(new Uint8Array(n)), the source being in state r
GetRandomValues(r, n) == [i \in 1..n |-> (r + i - 1) % 256]

ErrData == "DataError"
ErrOperation == "OperationError"

\* subtle.importKey("raw", key, {name: "AES-GCM"}, ...) accepts AES key sizes.
ImportKeyOk(key) == ByteLength(key) \in {16, 24, 32}

CtByte(p) == [k |-> "ct", p |-> p, x |-> 0]
GcmTag(key, iv, ct) ==
    [j \in 1..TagLen |-> [k |-> "tag", j |-> j, x |-> 0, mac |-> <<key, iv, ct>>]]

\* subtle.encrypt({name: "AES-GCM", iv}, aesKey, value): ciphertext and tag
GcmEncrypt(key, iv, value) ==
    LET ct == [j \in 1..Len(value) |-> CtByte(value[j])]
    IN  ct \o GcmTag(key, iv, ct)

\* Variant: a cipher mode that does not authenticate (no tag is verified).
GcmDecryptUnauthenticated(key, iv, data) ==
    IF Len(data) < TagLen THEN Err(ErrOperation)
    ELSE LET n == Len(data) - TagLen
             ct == SubSeq(data, 1, n)
         IN  Ok([j \in 1..n |-> ct[j].p])

\* subtle.decrypt({name: "AES-GCM", iv}, aesKey, data)
GcmDecrypt(key, iv, data) ==
    IF Len(data) < TagLen THEN Err(ErrOperation)
    ELSE LET n == Len(data) - TagLen
             ct == SubSeq(data, 1, n)
             tag == SubSeq(data, n + 1, Len(data))
         IN  IF tag = GcmTag(key, iv, ct)
             THEN Ok([j \in 1..n |-> ct[j].p])
             ELSE Err(ErrOperation)

\* Variant: the IV buffer is allocated and never filled.
EncryptFixedIv(key, value, r) ==
    LET iv == [i \in 1..IvLen |-> 0] IN
    IF ~ImportKeyOk(key) THEN Err(ErrData)
    ELSE Ok(iv \o GcmEncrypt(key, iv, value))

\* Variant: an IV of 12 bytes is drawn.
EncryptIv12(key, value, r) ==
    LET iv == GetRandomValues(r, 12) IN
    IF ~ImportKeyOk(key) THEN Err(ErrData)
    ELSE Ok(iv \o GcmEncrypt(key, iv, value))

\* SymmetricEncryption.encrypt, with the random source in state r
Encrypt(key, value, r) ==
    LET iv == GetRandomValues(r, IvLen) IN
    IF ~ImportKeyOk(key) THEN Err(ErrData)
    ELSE Ok(iv \o GcmEncrypt(key, iv, value))

\* Variant: the first 12 bytes are taken as the IV.
DecryptSplit12(key, value) ==
    LET iv == SubSeq(value, 1, Min(12, Len(value)))
        encryptedValue == SubSeq(value, IvSplit + 1, Len(value))
    IN  IF ~ImportKeyOk(key) THEN Err(ErrData)
        ELSE GcmDecrypt(key, iv, encryptedValue)

\* SymmetricEncryption.decrypt
Decrypt(key, value) ==
    LET iv == SubSeq(value, 1, Min(IvSplit, Len(value)))
        encryptedValue == SubSeq(value, IvSplit + 1, Len(value))
    IN  IF ~ImportKeyOk(key) THEN Err(ErrData)
        ELSE GcmDecrypt(key, iv, encryptedValue)

(***************************************************************************)
(* State.                                                                  *)
(*   ratchetCache  SymmetricEncryption.ratchetCache (static)               *)
(*   gen           how often the cache's current generation (the time      *)
(*                 since it was last created) has called Kdf.hash and, for *)
(*                 each chain position, Kdf.fastHash, and the largest      *)
(*                 chain position it was asked for                         *)
(*   held          the blob most recently produced, with what it was made  *)
(*                 from: the ciphertext the caller stores and hands back   *)
(*   last          the most recently completed call, its arguments and its *)
(*                 outcome, the calls it made on its collaborators, and    *)
(*                 what the cache held for its pair when it began          *)
(***************************************************************************)
VARIABLES ratchetCache, gen, held, last, frames

vars == <<ratchetCache, gen, held, last, frames>>

ZeroGen == [strong |-> 0, fast |-> [i \in 2..MaxIndex |-> 0], max |-> 0]

NoHeld == [kind |-> "none", blob |-> <<>>, keyphrase |-> "", salt |-> "", n |-> 0,
           m |-> JsUndefined, f |-> <<>>, r |-> 0]

NoTamper == [kind |-> "none", pos |-> 0]

\* What a call finds: whether a cache exists, whether it is the cache of the
\* call's pair, and if so the chain positions it holds.
Pre(cache, keyphrase, salt) ==
    LET same == cache.defined /\ cache.key = keyphrase /\ cache.salt = salt
    IN  [defined |-> cache.defined, same |-> same,
         cached |-> IF same THEN DOMAIN cache.hashes ELSE {}]

\* The record of a completed call.
Call(op, pre, keyphrase, salt, n, arg, tamper, ok, err, mek, calls, rng, aead, meta, bytes) ==
    [op |-> op, pre |-> pre, keyphrase |-> keyphrase, salt |-> salt, n |-> n,
     arg |-> arg, tamper |-> tamper, ok |-> ok, err |-> err, mek |-> mek,
     calls |-> calls, rng |-> rng, aead |-> aead, meta |-> meta, bytes |-> bytes]

\* The ratchetKey calls that can be in flight at once.
MaxRequests == 2

Requests == 1..MaxRequests

\* The SymmetricEncryption instances, each with a Kdf of its own.
Instances == {1, 2}

\* The frame of a ratchetKey call: where it is suspended, the instance it
\* was called on, its arguments and locals, the Kdf calls it made so far and
\* what it found in the cache when it was called.
Frame(pc, inst, key, salt, ratchetCount, saltHash, ratchetedKey, i, calls, pre) ==
    [pc |-> pc, inst |-> inst, key |-> key, salt |-> salt,
     ratchetCount |-> ratchetCount, saltHash |-> saltHash,
     ratchetedKey |-> ratchetedKey, i |-> i, calls |-> calls, pre |-> pre]

IdleFrame ==
    Frame("idle", 0, "", "", 0, UndefinedBytes, UndefinedBytes, 0, <<>>,
          Pre(UndefinedCache, "", ""))

Init ==
    /\ ratchetCache = UndefinedCache
    /\ gen = ZeroGen
    /\ held = NoHeld
    /\ frames = [p \in Requests |-> IdleFrame]
    /\ last = Call("new", Pre(UndefinedCache, "", ""), "", "", 0, JsUndefined, NoTamper, TRUE, "", UndefinedBytes,
                   <<>>, 0, 0, JsUndefined, <<>>)

CountCalls(calls, fn, i) ==
    Cardinality({c \in 1..Len(calls) : calls[c].fn = fn /\ calls[c].i = i})

\* The chain position a successful request for ratchetCount ends at.
Reached(ratchetCount) ==
    IF ratchetCount \div Den >= 1 THEN ratchetCount \div Den ELSE 1

\* The counters after a ratchet request that found the cache `cache'.
GenAfter(g, cache, keyphrase, salt, ratchetCount, rk) ==
    IF ~rk.ok THEN g
    ELSE LET base == IF InitalizeRatchetCache(cache, keyphrase, salt) # cache
                     THEN ZeroGen ELSE g
         IN  [strong |-> Min(CallCap, base.strong + CountCalls(rk.calls, "hash", 1)),
              fast |-> [i \in 2..MaxIndex |->
                          Min(CallCap, base.fast[i] + CountCalls(rk.calls, "fastHash", i))],
              max |-> IF Reached(ratchetCount) > base.max THEN Reached(ratchetCount)
                      ELSE base.max]

ErrMetadataShape == "Metadata must be an object"
ErrContentKey == "content key not found in metadata"

\* encryptMetadata(keyphrase, salt, fileNumber, metadata), the random source in state r
EncryptMetadata(keyphrase, salt, fileNumber, metadata, r) ==
    LET rk == RatchetKey(ratchetCache, keyphrase, salt, fileNumber)
        done(ok, err, rng, aead) ==
            Call("encryptMetadata", Pre(ratchetCache, keyphrase, salt), keyphrase, salt,
                 fileNumber, metadata, NoTamper,
                 ok, err, rk.key, rk.calls, rng, aead, JsUndefined, <<>>)
    IN  /\ ratchetCache' = rk.cache
        /\ gen' = GenAfter(gen, ratchetCache, keyphrase, salt, fileNumber, rk)
        /\ frames' = frames
        /\ IF ~rk.ok
           THEN /\ last' = done(FALSE, rk.err, 0, 0)
                /\ held' = held
           ELSE IF Truthy(metadata) /\ TypeOf(metadata) # "object"
           THEN /\ last' = done(FALSE, ErrMetadataShape, 0, 0)
                /\ held' = held
           ELSE LET metadataBuffer == TextEncode(JsonStringify(metadata))
                    enc == Encrypt(rk.key, metadataBuffer, r)
                IN  IF ~enc.ok
                    THEN /\ last' = done(FALSE, enc.err, 1, 1)
                         /\ held' = held
                    ELSE /\ last' = done(TRUE, "", 1, 2)
                         /\ held' = [kind |-> "metadata", blob |-> enc.v,
                                     keyphrase |-> keyphrase, salt |-> salt,
                                     n |-> fileNumber, m |-> metadata, f |-> <<>>,
                                     r |-> r]

\* What a third party can do to a stored blob: change one byte, cut it short.
FlipAt(blob, p) ==
    [i \in 1..Len(blob) |->
        IF i # p THEN blob[i]
        ELSE IF i <= IvLen THEN (blob[i] + 128) % 256
        ELSE [blob[i] EXCEPT !.x = 1 - @]]

Tamper(blob, t) ==
    CASE t.kind = "flip" -> FlipAt(blob, t.pos)
      [] t.kind = "truncate" -> SubSeq(blob, 1, t.pos)
      [] OTHER -> blob

Tampers(blob) ==
    {[kind |-> "flip", pos |-> p] : p \in 1..Len(blob)}
    \cup {[kind |-> "truncate", pos |-> l] : l \in 0..(Len(blob) - 1)}

\* decryptMetadata(keyphrase, salt, fileNumber, encryptedMetadata), where
\* encryptedMetadata is the held blob after the tampering t
DecryptMetadata(keyphrase, salt, fileNumber, t) ==
    LET rk == RatchetKey(ratchetCache, keyphrase, salt, fileNumber)
        done(ok, err, aead, meta) ==
            Call("decryptMetadata", Pre(ratchetCache, keyphrase, salt), keyphrase, salt,
                 fileNumber, JsUndefined, t,
                 ok, err, rk.key, rk.calls, 0, aead, meta, <<>>)
    IN  /\ held.kind # "none"
        /\ ratchetCache' = rk.cache
        /\ gen' = GenAfter(gen, ratchetCache, keyphrase, salt, fileNumber, rk)
        /\ frames' = frames
        /\ held' = held
        /\ IF ~rk.ok THEN last' = done(FALSE, rk.err, 0, JsUndefined)
           ELSE LET dec == Decrypt(rk.key, Tamper(held.blob, t)) IN
                IF ~dec.ok
                THEN last' = done(FALSE, dec.err, IF dec.err = ErrData THEN 1 ELSE 2,
                                  JsUndefined)
                ELSE LET parsed == JsonParse(TextDecode(dec.v))
                         metadata == parsed.v
                     IN  IF ~parsed.ok THEN last' = done(FALSE, parsed.err, 2, JsUndefined)
                         ELSE IF Truthy(metadata) /\ TypeOf(metadata) # "object"
                         THEN last' = done(FALSE, ErrMetadataShape, 2, JsUndefined)
                         ELSE IF metadata.t \in {"null", "undefined"}
                         THEN last' = done(FALSE, ErrType, 2, JsUndefined)
                         ELSE IF ~Truthy(GetProp(metadata, "contentKeyBase64"))
                         THEN last' = done(FALSE, ErrContentKey, 2, JsUndefined)
                         ELSE last' = done(TRUE, "", 2, metadata)

\* metadata.contentKeyBase64 decoded, as encryptFile and decryptFile do first
ContentKey(metadata) ==
    IF metadata.t \in {"null", "undefined"} THEN Err(ErrType)
    ELSE ToByteArray(GetProp(metadata, "contentKeyBase64"))

\* Variant: encryptFile asks ratchetKey's cache set-up for an empty pair.
EncryptFileTouchesCache(metadata, file, r) ==
    LET contentKey == ContentKey(metadata)
        enc == Encrypt(contentKey.v, file, r)
        ok == contentKey.ok /\ enc.ok
    IN  /\ ratchetCache' = InitalizeRatchetCache(ratchetCache, "", "")
        /\ gen' = ZeroGen
        /\ frames' = frames
        /\ last' = Call("encryptFile", Pre(ratchetCache, "", ""), "", "", 0, metadata,
                        NoTamper, ok,
                        IF ~contentKey.ok THEN contentKey.err
                        ELSE IF ~enc.ok THEN enc.err ELSE "",
                        UndefinedBytes, <<>>, IF contentKey.ok THEN 1 ELSE 0,
                        IF ok THEN 2 ELSE IF contentKey.ok THEN 1 ELSE 0,
                        JsUndefined, <<>>)
        /\ held' = IF ok THEN [kind |-> "file", blob |-> enc.v, keyphrase |-> "",
                               salt |-> "", n |-> 0, m |-> metadata, f |-> file,
                               r |-> r]
                   ELSE held

\* encryptFile(metadata, file), the random source in state r
EncryptFile(metadata, file, r) ==
    LET contentKey == ContentKey(metadata)
        done(ok, err, rng, aead) ==
            Call("encryptFile", Pre(ratchetCache, "", ""), "", "", 0, metadata, NoTamper,
                 ok, err, UndefinedBytes, <<>>, rng, aead, JsUndefined, <<>>)
    IN  /\ UNCHANGED <<ratchetCache, gen, frames>>
        /\ IF ~contentKey.ok
           THEN /\ last' = done(FALSE, contentKey.err, 0, 0)
                /\ held' = held
           ELSE LET enc == Encrypt(contentKey.v, file, r) IN
                IF ~enc.ok
                THEN /\ last' = done(FALSE, enc.err, 1, 1)
                     /\ held' = held
                ELSE /\ last' = done(TRUE, "", 1, 2)
                     /\ held' = [kind |-> "file", blob |-> enc.v, keyphrase |-> "",
                                 salt |-> "", n |-> 0, m |-> metadata, f |-> file,
                                 r |-> r]

\* decryptFile(metadata, encryptedFile), where encryptedFile is the held blob
\* after the tampering t
DecryptFile(metadata, t) ==
    LET contentKey == ContentKey(metadata)
        done(ok, err, aead, bytes) ==
            Call("decryptFile", Pre(ratchetCache, "", ""), "", "", 0, metadata, t,
                 ok, err, UndefinedBytes, <<>>, 0, aead, JsUndefined, bytes)
    IN  /\ held.kind # "none"
        /\ UNCHANGED <<ratchetCache, gen, held, frames>>
        /\ IF ~contentKey.ok THEN last' = done(FALSE, contentKey.err, 0, <<>>)
           ELSE LET dec == Decrypt(contentKey.v, Tamper(held.blob, t)) IN
                IF ~dec.ok
                THEN last' = done(FALSE, dec.err, IF dec.err = ErrData THEN 1 ELSE 2, <<>>)
                ELSE last' = done(TRUE, "", 2, dec.v)

\* new Uint8Array(32) in createContentKey
ContentKeyLen == 32

\* createContentKey(), the random source in state r
CreateContentKey(r) ==
    /\ UNCHANGED <<ratchetCache, gen, held, frames>>
    /\ last' = Call("createContentKey", Pre(ratchetCache, "", ""), "", "", 0, JsUndefined,
                    NoTamper, TRUE, "", UndefinedBytes, <<>>, 1, 0, JsUndefined,
                    GetRandomValues(r, ContentKeyLen))

\* createContentKeyBase64(), the random source in state r
CreateContentKeyBase64(r) ==
    LET contentKey == GetRandomValues(r, ContentKeyLen)
        contentKeyBase64 == FromByteArray(contentKey)
    IN  /\ UNCHANGED <<ratchetCache, gen, held, frames>>
        /\ last' = Call("createContentKeyBase64", Pre(ratchetCache, "", ""), "", "", 0,
                        JsUndefined, NoTamper, TRUE, "", UndefinedBytes, <<>>, 1, 0,
                        JsString(contentKeyBase64), contentKey)

\* The record of a completed call on a Kdf: the method, its arguments,
\* the outcome and the calls made on the providers.
KdfDone(op, pass, salt, hashedSalt, res, provider) ==
    [op |-> op, pass |-> pass, salt |-> salt, hashedSalt |-> hashedSalt,
     ok |-> res.ok, err |-> res.err, out |-> res.v, provider |-> provider]

\* new Kdf().hash(keyphrase, salt, hashedSalt)
Hash(keyphrase, salt, hashedSalt) ==
    /\ UNCHANGED <<ratchetCache, gen, held, frames>>
    /\ last' = KdfDone("Kdf.hash", Utf8(keyphrase), salt, hashedSalt,
                       KdfHash(keyphrase, salt, hashedSalt),
                       KdfProviderCalls(Utf8(keyphrase), salt, hashedSalt))

\* new Kdf().fastHash(key, salt, hashedSalt)
FastHash(key, salt, hashedSalt) ==
    /\ UNCHANGED <<ratchetCache, gen, held, frames>>
    /\ last' = KdfDone("Kdf.fastHash", key, salt, hashedSalt,
                       KdfFastHash(key, salt, hashedSalt),
                       KdfProviderCalls(key, salt, hashedSalt))

(***************************************************************************)
(* Signature, over @noble/ed25519 taken as an ideal signature scheme: a    *)
(* public key stands for the private key it was derived from, a signature  *)
(* for the message and the private key it was made with.  x = 1 marks a    *)
(* value some byte of which was changed, len is its length in bytes.       *)
(***************************************************************************)
PrivLen == 32
PubLen == 32
SigLen == 64

PublicKeyOf(privateKey, x, len) == [priv |-> privateKey, x |-> x, len |-> len]
SignatureOf(message, privateKey, x, len) ==
    [message |-> message, priv |-> privateKey, x |-> x, len |-> len]

ErrPrivateKey == "private key of 32 bytes expected"
ErrSignatureLength == "signature of 64 bytes expected"

\* edDSA.getPublicKeyAsync(privateKey)
GetPublicKeyAsync(privateKey) ==
    IF ByteLength(privateKey) # PrivLen THEN Err(ErrPrivateKey)
    ELSE Ok(PublicKeyOf(privateKey, 0, PubLen))

\* edDSA.signAsync(message, privateKey)
SignAsync(message, privateKey) ==
    IF ByteLength(privateKey) # PrivLen THEN Err(ErrPrivateKey)
    ELSE Ok(SignatureOf(message, privateKey, 0, SigLen))

\* Variant: the signature is checked against the message only.
VerifyAsyncAnyKey(signature, message, publicKey) ==
    IF signature.len # SigLen THEN Err(ErrSignatureLength)
    ELSE Ok(signature.x = 0 /\ signature.message = message)

\* edDSA.verifyAsync(signature, message, publicKey): a signature that is not
\* 64 bytes long is refused with an error before anything is decoded; a
\* public key that does not decode makes the verification false.
VerifyAsync(signature, message, publicKey) ==
    IF signature.len # SigLen THEN Err(ErrSignatureLength)
    ELSE IF publicKey.len # PubLen \/ publicKey.x # 0 THEN Ok(FALSE)
    ELSE Ok(/\ signature.x = 0
            /\ signature.message = message
            /\ signature.priv = publicKey.priv)

NoKey == PublicKeyOf(UndefinedBytes, 0, 0)
NoSignature == SignatureOf("", UndefinedBytes, 0, 0)

\* The record of a completed call on a Signature.
SigDone(op, keyphrase, salt, message, privateKey, publicKey, signature, ok, err, valid, calls) ==
    [op |-> op, keyphrase |-> keyphrase, salt |-> salt, message |-> message,
     privateKey |-> privateKey, publicKey |-> publicKey, signature |-> signature,
     ok |-> ok, err |-> err, valid |-> valid, calls |-> calls,
     pre |-> Pre(ratchetCache, keyphrase, salt)]

\* Variant: the private key is taken from the ratchet cache when there is one.
CreateKeyPairFromCache(keyphrase, salt) ==
    LET privateKey == IF ratchetCache.defined /\ MapHas(ratchetCache.hashes, Num(1))
                      THEN MapGet(ratchetCache.hashes, Num(1))
                      ELSE KdfHash(keyphrase, salt, UndefinedBytes).v
    IN  /\ UNCHANGED <<ratchetCache, gen, held, frames>>
        /\ last' = SigDone("createKeyPairFromKeyPhrase", keyphrase, salt, "",
                           privateKey, GetPublicKeyAsync(privateKey).v, NoSignature,
                           TRUE, "", FALSE,
                           <<KdfCall("hash", Utf8(keyphrase), salt, UndefinedBytes, 0)>>)

\* new Signature().createKeyPairFromKeyPhrase(keyphrase, salt)
CreateKeyPairFromKeyPhrase(keyphrase, salt) ==
    LET hashed == KdfHash(keyphrase, salt, UndefinedBytes)
        calls == <<KdfCall("hash", Utf8(keyphrase), salt, UndefinedBytes, 0)>>
        done(privateKey, publicKey, ok, err) ==
            SigDone("createKeyPairFromKeyPhrase", keyphrase, salt, "",
                    privateKey, publicKey, NoSignature, ok, err, FALSE, calls)
    IN  /\ UNCHANGED <<ratchetCache, gen, held, frames>>
        /\ IF ~hashed.ok THEN last' = done(UndefinedBytes, NoKey, FALSE, hashed.err)
           ELSE LET publicKey == GetPublicKeyAsync(hashed.v) IN
                IF ~publicKey.ok
                THEN last' = done(UndefinedBytes, NoKey, FALSE, publicKey.err)
                ELSE last' = done(hashed.v, publicKey.v, TRUE, "")

\* new Signature().sign(message, privateKey)
Sign(message, privateKey) ==
    LET signed == SignAsync(message, privateKey) IN
    /\ UNCHANGED <<ratchetCache, gen, held, frames>>
    /\ last' = SigDone("sign", "", "", message, privateKey, NoKey,
                       IF signed.ok THEN signed.v ELSE NoSignature,
                       signed.ok, signed.err, FALSE, <<>>)

\* new Signature().verify(message, signature, publicKey)
Verify(message, signature, publicKey) ==
    LET verified == VerifyAsync(signature, message, publicKey) IN
    /\ UNCHANGED <<ratchetCache, gen, held, frames>>
    /\ last' = SigDone("verify", "", "", message, UndefinedBytes, publicKey, signature,
                       verified.ok, verified.err,
                       IF verified.ok THEN verified.v ELSE FALSE, <<>>)

(***************************************************************************)
(* A third party that got hold of one metadata key.  It knows the salt     *)
(* (the dataspace name is public) and the Kdf, not the keyphrase; `known'  *)
(* is the set of byte strings it holds, which it enlarges by calling the   *)
(* Kdf on what it holds.                                                   *)
(***************************************************************************)
AttackerOps == {"compromise", "attackerHashSalt", "attackerFastHash", "attackerHash"}
\* The most byte strings the third party collects.
AttackerCap == MaxIndex + 2

Attacker(op, keyphrase, salt, n, known) ==
    [op |-> op, keyphrase |-> keyphrase, salt |-> salt, n |-> n, known |-> known]

KnownKeys == {x \in last.known : x[1] = "argon2id"}
KnownSaltHashes == {x \in last.known : x[1] = "sha256"}
\* The strings the third party tries as keyphrase.
Guesses == {last.salt, "guess"}

\* The key the last encryptMetadata used leaks.
Compromise ==
    /\ last.op = "encryptMetadata" /\ last.ok
    /\ UNCHANGED <<ratchetCache, gen, held, frames>>
    /\ last' = Attacker("compromise", last.keyphrase, last.salt, last.n, {last.mek})

Learn(op, x) ==
    /\ last.op \in AttackerOps
    /\ Cardinality(last.known) < AttackerCap
    /\ x \notin last.known
    /\ UNCHANGED <<ratchetCache, gen, held, frames>>
    /\ last' = Attacker(op, last.keyphrase, last.salt, last.n, last.known \cup {x})

\* Kdf.hashSalt(salt) by the third party
AttackerHashSalt ==
    /\ last.op \in AttackerOps
    /\ Learn("attackerHashSalt", HashSalt(last.salt))

\* Kdf.fastHash(key, undefined, saltHash) by the third party, on what it holds
AttackerFastHash ==
    /\ last.op \in AttackerOps
    /\ \E key \in KnownKeys, saltHash \in KnownSaltHashes :
          Learn("attackerFastHash", KdfFastHash(key, UndefinedStr, saltHash).v)

\* Kdf.hash(guess, undefined, saltHash) by the third party
AttackerHash ==
    /\ last.op \in AttackerOps
    /\ \E guess \in Guesses, saltHash \in KnownSaltHashes :
          Learn("attackerHash", KdfHash(guess, UndefinedStr, saltHash).v)

\* SymmetricEncryption.clearRatchetCache()
ClearRatchetCache ==
    /\ ratchetCache' = ClearedCache
    /\ gen' = ZeroGen
    /\ frames' = frames
    /\ held' = held
    /\ last' = Call("clearRatchetCache", Pre(ratchetCache, "", ""), "", "", 0, JsUndefined, NoTamper, TRUE, "",
                    UndefinedBytes, <<>>, 0, 0, JsUndefined, <<>>)

(***************************************************************************)
(* ratchetKey as the asynchronous function it is: it runs without          *)
(* interruption up to an await of a Kdf call, is suspended there, and      *)
(* other calls and clearRatchetCache run before it is resumed.             *)
(***************************************************************************)
\* The Kdf of the instance rejected the call.
ErrKdf == "Kdf call rejected"

\* The completed call c in short: the instance and index of a ratchetKey
\* call, and whether it returned a key it had to compute.
Before(c) ==
    IF c.op # "ratchetKey" THEN [inst |-> 0, n |-> 0, computed |-> FALSE]
    ELSE [inst |-> c.inst, n |-> c.n, computed |-> c.ok /\ c.calls # <<>>]

\* The record of a completed ratchetKey call, and the call completed before
\* it.
Ratcheted(f, ok, err, mek) ==
    [op |-> "ratchetKey", inst |-> f.inst, keyphrase |-> f.key, salt |-> f.salt,
     n |-> f.ratchetCount, ok |-> ok, err |-> err, mek |-> mek, calls |-> f.calls,
     pre |-> f.pre, before |-> Before(last)]

\* How a run of ratchetKey between two awaits ends: suspended again
\* (done = FALSE), returned or thrown.
Ran(cache, f, done, ok, err) ==
    [cache |-> cache, frame |-> f, done |-> done, ok |-> ok, err |-> err]

\* ratchetCache?.hashes.get(i) is a key
CacheHit(cache, i) == cache.defined /\ MapHas(cache.hashes, i)

\* SymmetricEncryption.ratchetCache!.hashes.set(i, ratchetedKey), in the
\* call with frame f
Set(cache, f, i, ratchetedKey) ==
    IF ~cache.defined THEN Err(ErrType)
    ELSE Ok([cache EXCEPT !.hashes = MapSet(@, i, ratchetedKey)])

\* Variant: at a cached index the loop keeps the key it has.
RECURSIVE LoopRunKeepsKey(_, _)
LoopRunKeepsKey(cache, f) ==
    IF Num(f.i) > f.ratchetCount THEN Ran(cache, f, TRUE, TRUE, "")
    ELSE IF ~CacheHit(cache, Num(f.i))
    THEN Ran(cache,
             [f EXCEPT !.pc = "fastHash",
                       !.calls = Append(@, KdfCall("fastHash", f.ratchetedKey,
                                                   UndefinedStr, f.saltHash, f.i))],
             FALSE, TRUE, "")
    ELSE LoopRunKeepsKey(cache, [f EXCEPT !.i = @ + 1])

\* The for loop from f.i on, up to its next await or its end.
RECURSIVE LoopRun(_, _)
LoopRun(cache, f) ==
    IF Num(f.i) > f.ratchetCount THEN Ran(cache, f, TRUE, TRUE, "")
    ELSE IF ~CacheHit(cache, Num(f.i))
    THEN Ran(cache,
             [f EXCEPT !.pc = "fastHash",
                       !.calls = Append(@, KdfCall("fastHash", f.ratchetedKey,
                                                   UndefinedStr, f.saltHash, f.i))],
             FALSE, TRUE, "")
    ELSE LET ratchetedKey == MapGet(cache.hashes, Num(f.i))
             set == Set(cache, f, Num(f.i), ratchetedKey)
         IN  IF ~set.ok THEN Ran(cache, f, TRUE, FALSE, set.err)
             ELSE LoopRun(set.v, [f EXCEPT !.ratchetedKey = ratchetedKey, !.i = @ + 1])

\* Variant: the first key is not cached.
AfterFirstNotCached(cache, f, ratchetedKey) ==
    IF ~cache.defined THEN Ran(cache, f, TRUE, FALSE, ErrType)
    ELSE LoopRun(cache, [f EXCEPT !.ratchetedKey = ratchetedKey, !.i = 2])

\* The statements after ratchetedKey got its first value: it is cached at
\* index 1 and the loop starts.
AfterFirst(cache, f, ratchetedKey) ==
    LET set == Set(cache, f, Num(1), ratchetedKey)
    IN  IF ~set.ok THEN Ran(cache, f, TRUE, FALSE, set.err)
        ELSE LoopRun(set.v, [f EXCEPT !.ratchetedKey = ratchetedKey, !.i = 2])

\* The state after a run of the call p.
Settle(p, ran) ==
    /\ ratchetCache' = ran.cache
    /\ UNCHANGED <<gen, held>>
    /\ IF ran.done
       THEN /\ frames' = [frames EXCEPT ![p] = IdleFrame]
            /\ last' = Ratcheted(ran.frame, ran.ok, ran.err,
                                 IF ran.ok THEN ran.frame.ratchetedKey
                                 ELSE UndefinedBytes)
       ELSE /\ frames' = [frames EXCEPT ![p] = ran.frame]
            /\ last' = last

\* ratchetKey(key, salt, ratchetCount) is called on the instance inst and
\* runs to its return, its throw or its await of hashSalt.
CallRatchetKey(p, inst, key, salt, ratchetCount) ==
    LET f == Frame("hashSalt", inst, key, salt, ratchetCount, UndefinedBytes,
                   UndefinedBytes, 0, <<>>, Pre(ratchetCache, key, salt))
        cache == InitalizeRatchetCache(ratchetCache, key, salt)
    IN  /\ frames[p].pc = "idle"
        /\ Settle(p,
              IF ratchetCount <= 0 THEN Ran(ratchetCache, f, TRUE, FALSE, ErrRatchetCount)
              ELSE IF CacheHit(cache, ratchetCount)
              THEN Ran(cache, [f EXCEPT !.ratchetedKey = MapGet(cache.hashes, ratchetCount)],
                       TRUE, TRUE, "")
              ELSE Ran(cache,
                       [f EXCEPT !.calls = <<KdfCall("hashSalt", UndefinedBytes, salt,
                                                     UndefinedBytes, 0)>>],
                       FALSE, TRUE, ""))

\* The call p is resumed with the digest of its salt, or with the rejection
\* of hashSalt.
ResumeHashSalt(p, rejected) ==
    LET f == [frames[p] EXCEPT !.saltHash = HashSalt(frames[p].salt)]
    IN  /\ frames[p].pc = "hashSalt"
        /\ Settle(p,
              IF rejected THEN Ran(ratchetCache, frames[p], TRUE, FALSE, ErrKdf)
              ELSE IF CacheHit(ratchetCache, Num(1))
              THEN AfterFirst(ratchetCache, f, MapGet(ratchetCache.hashes, Num(1)))
              ELSE Ran(ratchetCache,
                       [f EXCEPT !.pc = "hash",
                                 !.calls = Append(@, KdfCall("hash", Utf8(f.key),
                                                             UndefinedStr, f.saltHash, 1))],
                       FALSE, TRUE, ""))

\* The call p is resumed with the strong hash, or with its rejection.
ResumeHash(p, rejected) ==
    LET f == frames[p]
    IN  /\ f.pc = "hash"
        /\ Settle(p,
              IF rejected THEN Ran(ratchetCache, f, TRUE, FALSE, ErrKdf)
              ELSE AfterFirst(ratchetCache, f, KdfHash(f.key, UndefinedStr, f.saltHash).v))

\* The call p is resumed with the fast hash of step f.i, or with its
\* rejection.
ResumeFastHash(p, rejected) ==
    LET f == frames[p]
        ratchetedKey == KdfFastHash(f.ratchetedKey, UndefinedStr, f.saltHash).v
        set == Set(ratchetCache, f, Num(f.i), ratchetedKey)
    IN  /\ f.pc = "fastHash"
        /\ Settle(p,
              IF rejected THEN Ran(ratchetCache, f, TRUE, FALSE, ErrKdf)
              ELSE IF ~set.ok THEN Ran(ratchetCache, f, TRUE, FALSE, set.err)
              ELSE LoopRun(set.v, [f EXCEPT !.ratchetedKey = ratchetedKey, !.i = @ + 1]))

\* No ratchetKey call is in flight.
AllIdle == \A p \in Requests : frames[p].pc = "idle"

(***************************************************************************)
(* Inputs.                                                                 *)
(***************************************************************************)
Keyphrases == {"kA", "kB"}
Salts == {"s1", "s2"}
\* -1, 0, the smallest positive fraction, the first fraction above 1, and
\* 1..MaxIndex
Indices == {Num(-1), Num(0), 1, Num(1) + 1} \cup {Num(i) : i \in 1..MaxIndex}

Meta(contentKeyBase64, fileName) ==
    JsObject(<<Member("contentKeyBase64", contentKeyBase64), Member("fileName", fileName)>>)
PlainMetadata == Meta(JsString(B64Key32A), JsString("test.txt"))

\* The largest file, in bytes.
MaxFileLen == 1

\* The states of the random source an encryption can find.
Seeds == {0, 100}

\* Metadata objects: every kind of value in the extra field, a content key
\* that is empty, short or missing.
Metadatas ==
    {PlainMetadata,
     Meta(JsString(B64Key32B), JsNull),
     Meta(JsString(B64Key32B), JsNumber("1")),
     Meta(JsString(B64Key32A), JsBoolean("true")),
     Meta(JsString(B64Key32A), JsNaN),
     Meta(JsString(B64Key32A), JsUndefined),
     Meta(JsString(""), JsString("test.txt")),
     JsObject(<<Member("contentKeyBase64", JsString(B64Key16))>>),
     JsObject(<<Member("fileName", JsString("test.txt"))>>)}

FileMetadatas ==
    {PlainMetadata,
     Meta(JsString(B64Key32B), JsNull),
     JsObject(<<Member("contentKeyBase64", JsString(B64Key16))>>),
     JsObject(<<Member("fileName", JsString("test.txt"))>>)}

Files ==
    UNION {[1..l -> {FileByte("00"), FileByte("ff")}] : l \in 0..MaxFileLen}

CodecIndices == {Num(1), Num(2)}

(***************************************************************************)
(* Spec: metadata requests for every pair and every ratchet count, and     *)
(* clearRatchetCache, one call at a time.                                  *)
(***************************************************************************)
Next ==
    \/ \E keyphrase \in Keyphrases, salt \in Salts, n \in Indices :
          EncryptMetadata(keyphrase, salt, n, PlainMetadata, 0)
    \/ \E keyphrase \in Keyphrases, salt \in Salts, n \in Indices :
          DecryptMetadata(keyphrase, salt, n, NoTamper)
    \/ ClearRatchetCache

Spec == Init /\ [][Next]_vars

(***************************************************************************)
(* SpecCodec: metadata of every shape and files of every length, encrypted *)
(* and decrypted again, with two keyphrases taking turns in the cache.     *)
(***************************************************************************)
\* The name of a thrown value: "Error" for the values made with
\* new Error(message), the name of the exception otherwise.
ErrorName(err) ==
    IF err \in {ErrMissingSaltHash, ErrMissingSaltFast, ErrRatchetCount,
                ErrMetadataShape, ErrContentKey, ErrBase64}
    THEN "Error"
    ELSE err

ErrorMetadatas ==
    {PlainMetadata, JsObject(<<Member("fileName", JsString("test.txt"))>>),
     JsString("text"), JsNull}

\* The held blob with its last byte changed, or as it is.
ErrorTampers ==
    {NoTamper} \cup {[kind |-> "flip", pos |-> p] : p \in {Len(held.blob)} \ {0}}

\* The calls that can fail: on a Kdf with and without salts, and the two
\* metadata operations with valid and invalid indices and metadata.
NextErrors ==
    \/ \E keyphrase \in Keyphrases, salt \in {UndefinedStr, "s1"},
          hashedSalt \in {UndefinedBytes, HashSalt("s1")} :
          Hash(keyphrase, salt, hashedSalt)
    \/ \E keyphrase \in Keyphrases, salt \in {UndefinedStr, "s1"},
          hashedSalt \in {UndefinedBytes, HashSalt("s1")} :
          FastHash(KdfHash(keyphrase, "s1", UndefinedBytes).v, salt, hashedSalt)
    \/ \E keyphrase \in Keyphrases, n \in {Num(0), Num(1)}, m \in ErrorMetadatas :
          EncryptMetadata(keyphrase, "s1", n, m, 0)
    \/ \E keyphrase \in Keyphrases, n \in {Num(0), Num(1)}, t \in ErrorTampers :
          DecryptMetadata(keyphrase, "s1", n, t)
    \/ ClearRatchetCache

SpecErrors == Init /\ [][NextErrors]_vars

Pairs == {<<"kA", "s1">>, <<"kB", "s1">>}

AsyncIndices == {Num(1), Num(2)}

\* ratchetKey calls that overlap each other and clearRatchetCache.
NextAsync ==
    \/ \E p \in Requests, pair \in Pairs, n \in AsyncIndices :
          CallRatchetKey(p, 1, pair[1], pair[2], n)
    \/ \E p \in Requests : ResumeHashSalt(p, FALSE)
    \/ \E p \in Requests : ResumeHash(p, FALSE)
    \/ \E p \in Requests : ResumeFastHash(p, FALSE)
    \/ ClearRatchetCache

SpecAsync == Init /\ [][NextAsync]_vars

\* ratchetKey calls on two instances and clearRatchetCache, one after the
\* other; the Kdf of an instance may reject any of its calls.
NextSerial ==
    \/ /\ AllIdle
       /\ \E inst \in Instances, pair \in Pairs, n \in {Num(i) : i \in 1..MaxIndex} :
             CallRatchetKey(1, inst, pair[1], pair[2], n)
    \/ \E p \in Requests, rejected \in BOOLEAN : ResumeHashSalt(p, rejected)
    \/ \E p \in Requests, rejected \in BOOLEAN : ResumeHash(p, rejected)
    \/ \E p \in Requests, rejected \in BOOLEAN : ResumeFastHash(p, rejected)
    \/ AllIdle /\ ClearRatchetCache

SpecSerial == Init /\ [][NextSerial]_vars

SamePairIndices == {Num(1), Num(2), Num(3)}

\* Overlapping ratchetKey calls for one pair.
NextSamePair ==
    \/ \E p \in Requests, n \in SamePairIndices :
          CallRatchetKey(p, 1, "kA", "s1", n)
    \/ \E p \in Requests : ResumeHashSalt(p, FALSE)
    \/ \E p \in Requests : ResumeHash(p, FALSE)
    \/ \E p \in Requests : ResumeFastHash(p, FALSE)

SpecSamePair == Init /\ [][NextSamePair]_vars

\* ratchetKey calls for one pair that overlap each other and
\* clearRatchetCache.
NextClear ==
    \/ NextSamePair
    \/ ClearRatchetCache

SpecClear == Init /\ [][NextClear]_vars

\* A content key is created, put into a file's metadata and used.
NextContentKey ==
    \/ \E r \in Seeds : CreateContentKey(r)
    \/ \E r \in Seeds : CreateContentKeyBase64(r)
    \/ /\ last.op = "createContentKeyBase64"
       /\ \E fileName \in {JsString("test.txt"), JsNull}, f \in Files, r \in Seeds :
             EncryptFile(Meta(last.meta, fileName), f, r)
    \/ \E m \in FileMetadatas \cup {held.m} : DecryptFile(m, NoTamper)
    \/ \E keyphrase \in Keyphrases, n \in CodecIndices :
          EncryptMetadata(keyphrase, "s1", n, PlainMetadata, 0)
    \/ ClearRatchetCache

SpecContentKey == Init /\ [][NextContentKey]_vars

NextCodec ==
    \/ \E keyphrase \in Keyphrases, n \in CodecIndices, m \in Metadatas, r \in Seeds :
          EncryptMetadata(keyphrase, "s1", n, m, r)
    \/ \E keyphrase \in Keyphrases, n \in CodecIndices :
          DecryptMetadata(keyphrase, "s1", n, NoTamper)
    \/ \E m \in FileMetadatas, f \in Files, r \in Seeds : EncryptFile(m, f, r)
    \/ \E m \in FileMetadatas : DecryptFile(m, NoTamper)
    \/ ClearRatchetCache

SpecCodec == Init /\ [][NextCodec]_vars

(***************************************************************************)
(* SpecKdf: Kdf.hash and Kdf.fastHash called directly, with a salt, with a *)
(* hashed salt, with both and with neither.                                *)
(***************************************************************************)
OptionalSalts == {UndefinedStr} \cup Salts
OptionalHashedSalts == {UndefinedBytes} \cup {HashSalt(salt) : salt \in Salts}
\* Keys to hash further: the strong hashes of the keyphrases, once and twice
\* fast-hashed.
KdfKeys ==
    LET strong == {KdfHash(keyphrase, salt, UndefinedBytes).v :
                     keyphrase \in Keyphrases, salt \in Salts}
        fast(keys) == {KdfFastHash(key, salt, UndefinedBytes).v :
                         key \in keys, salt \in Salts}
    IN  strong \cup fast(strong)

NextKdf ==
    \/ \E keyphrase \in Keyphrases, salt \in OptionalSalts,
          hashedSalt \in OptionalHashedSalts : Hash(keyphrase, salt, hashedSalt)
    \/ \E key \in KdfKeys, salt \in OptionalSalts,
          hashedSalt \in OptionalHashedSalts : FastHash(key, salt, hashedSalt)

SpecKdf == Init /\ [][NextKdf]_vars

(***************************************************************************)
(* SpecShape: encryptMetadata given values of every JavaScript type as     *)
(* metadata, and decryptMetadata given back what it returned.              *)
(***************************************************************************)
NonObjects ==
    {JsNull, JsUndefined, JsString(""), JsString("text"), JsNumber("0"),
     JsNumber("1"), JsNaN, JsBoolean("false"), JsBoolean("true")}

MetadataValues == Metadatas \cup NonObjects

NextShape ==
    \/ \E keyphrase \in Keyphrases, n \in CodecIndices, m \in MetadataValues :
          EncryptMetadata(keyphrase, "s1", n, m, 0)
    \/ \E keyphrase \in Keyphrases, n \in CodecIndices :
          DecryptMetadata(keyphrase, "s1", n, NoTamper)
    \/ ClearRatchetCache

SpecShape == Init /\ [][NextShape]_vars

(***************************************************************************)
(* SpecSignature: keypairs derived from the keyphrases, messages signed    *)
(* with them, and verify given genuine, altered and cut signatures and     *)
(* public keys, with the ratchet at work in between.                       *)
(***************************************************************************)
Messages == {"m1", "m2"}
PrivateKeys ==
    {KdfHash(keyphrase, salt, UndefinedBytes).v : keyphrase \in Keyphrases, salt \in {"s1"}}
PublicKeys ==
    {GetPublicKeyAsync(privateKey).v : privateKey \in PrivateKeys}
    \cup {PublicKeyOf(KdfHash("kA", "s1", UndefinedBytes).v, 1, PubLen),
          PublicKeyOf(KdfHash("kA", "s1", UndefinedBytes).v, 0, PubLen - 1)}
Signatures ==
    {SignatureOf(message, privateKey, x, SigLen) :
        message \in Messages, privateKey \in PrivateKeys, x \in {0, 1}}
    \cup {SignatureOf(message, privateKey, 0, SigLen - 1) :
            message \in Messages, privateKey \in PrivateKeys}

NextSignature ==
    \/ \E keyphrase \in Keyphrases, salt \in Salts :
          CreateKeyPairFromKeyPhrase(keyphrase, salt)
    \/ \E message \in Messages, privateKey \in PrivateKeys : Sign(message, privateKey)
    \/ \E message \in Messages, signature \in Signatures, publicKey \in PublicKeys :
          Verify(message, signature, publicKey)
    \/ \E keyphrase \in Keyphrases, n \in CodecIndices :
          EncryptMetadata(keyphrase, "s1", n, PlainMetadata, 0)
    \/ ClearRatchetCache

SpecSignature == Init /\ [][NextSignature]_vars

(***************************************************************************)
(* SpecAttacker: metadata encrypted at every index the program accepts,    *)
(* the key of one encryption leaking, and the third party computing from   *)
(* it.                                                                     *)
(***************************************************************************)
NextAttacker ==
    \/ \E keyphrase \in Keyphrases, n \in {i \in Indices : i > 0} :
          EncryptMetadata(keyphrase, "s1", n, PlainMetadata, 0)
    \/ Compromise
    \/ AttackerHashSalt
    \/ AttackerFastHash
    \/ AttackerHash

SpecAttacker == Init /\ [][NextAttacker]_vars

(***************************************************************************)
(* SpecTamper: one metadata blob and the files of one content key, handed  *)
(* back for decryption under the same key, unchanged or after a third      *)
(* party changed one byte or cut the blob short.                           *)
(***************************************************************************)
NextTamper ==
    \/ EncryptMetadata("kA", "s1", Num(1), PlainMetadata, 0)
    \/ \E f \in Files : EncryptFile(PlainMetadata, f, 0)
    \/ \E t \in {NoTamper} \cup Tampers(held.blob) :
          DecryptMetadata("kA", "s1", Num(1), t)
    \/ \E t \in {NoTamper} \cup Tampers(held.blob) : DecryptFile(PlainMetadata, t)

SpecTamper == Init /\ [][NextTamper]_vars

(***************************************************************************)
(* Properties of the ratchet and its cache (checked under Spec).           *)
(***************************************************************************)
\* The call asked ratchetKey for a key (encryptMetadata and decryptMetadata
\* do so first of all).
IsRatchetRequest(c) == c.op \in {"encryptMetadata", "decryptMetadata"}
\* The ratchet count of the call is one of the integers 1..MaxIndex.
IntegralIndex(c) == \E i \in 1..MaxIndex : c.n = Num(i)

\* k_j of the chain of (keyphrase, salt), as the specification defines it.
RECURSIVE Chain(_, _, _)
Chain(keyphrase, salt, j) ==
    IF j <= 1 THEN KdfHash(keyphrase, UndefinedStr, HashSalt(salt)).v
    ELSE KdfFastHash(Chain(keyphrase, salt, j - 1), UndefinedStr, HashSalt(salt)).v

\* The calls that compute k_1..k_n from nothing: one hashSalt, one hash, and
\* one fastHash per further position, the raw salt undefined in each.
ChainCalls(keyphrase, salt, n) ==
    <<KdfCall("hashSalt", UndefinedBytes, salt, UndefinedBytes, 0),
      KdfCall("hash", Utf8(keyphrase), UndefinedStr, HashSalt(salt), 1)>>
    \o [j \in 1..(n - 1) |->
          KdfCall("fastHash", Chain(keyphrase, salt, j), UndefinedStr, HashSalt(salt), j + 1)]

\* C1: on an empty cache, a request for (K, S, N), N an integer >= 1, uses
\* k_N of the chain k_1 = hash(K, undefined, hashSalt(S)),
\* k_j = fastHash(k_(j-1), undefined, hashSalt(S)); hashSalt is called once and
\* its result is the hashedSalt argument of every hash and fastHash call.
C1_ChainOnEmptyCache ==
    (IsRatchetRequest(last) /\ IntegralIndex(last) /\ ~last.pre.defined)
    => /\ last.mek = Chain(last.keyphrase, last.salt, last.n \div Den)
       /\ last.calls = ChainCalls(last.keyphrase, last.salt, last.n \div Den)

C1_Witness ==
    /\ last.op = "encryptMetadata" /\ last.ok
    /\ ~last.pre.defined
    /\ last.n = Num(MaxIndex)
    /\ Len(last.calls) = MaxIndex + 1

\* C2: whatever requests and clearRatchetCache calls came before, a request
\* for (K, S, N), N >= 1, returns the key it returns on an empty cache.
C2_KeyIndependentOfHistory ==
    (IsRatchetRequest(last) /\ last.n >= Num(1))
    => last.mek = RatchetKey(UndefinedCache, last.keyphrase, last.salt, last.n).key

\* A request for N served from a cache that held a shorter prefix of the pair.
C2_Witness ==
    /\ IsRatchetRequest(last) /\ last.n = Num(MaxIndex)
    /\ last.pre.same /\ last.pre.cached = {Num(1)}
    /\ last.mek = Chain(last.keyphrase, last.salt, MaxIndex)

\* C3: within one generation of the cache Kdf.hash is called once and
\* Kdf.fastHash once for each position 2..max requested; a request for a
\* cached index calls nothing on the Kdf; a request for N after M < N calls
\* fastHash for the positions M+1..N and neither hash nor fastHash otherwise.
C3_EachStepOnce ==
    /\ (ratchetCache.defined /\ gen.max >= 1)
       => /\ gen.strong = 1
          /\ \A i \in 2..MaxIndex : gen.fast[i] = IF i <= gen.max THEN 1 ELSE 0
    /\ (IsRatchetRequest(last) /\ last.n > 0 /\ last.n \in last.pre.cached)
       => last.calls = <<>>
    /\ (IsRatchetRequest(last) /\ IntegralIndex(last) /\ last.pre.same
          /\ last.n \notin last.pre.cached)
       => LET m == Cardinality(last.pre.cached)
              n == last.n \div Den
          IN  /\ m >= 1 /\ last.pre.cached = {Num(i) : i \in 1..m}
              /\ \A c \in 1..Len(last.calls) : last.calls[c].fn # "hash"
              /\ {last.calls[c].i : c \in {x \in 1..Len(last.calls) :
                                            last.calls[x].fn = "fastHash"}} = (m + 1)..n
              /\ Cardinality({x \in 1..Len(last.calls) :
                                last.calls[x].fn = "fastHash"}) = n - m

\* A request for MaxIndex after a request for 1, in the same generation.
C3_Witness ==
    /\ IsRatchetRequest(last) /\ last.n = Num(MaxIndex)
    /\ last.pre.same /\ last.pre.cached = {Num(1)}
    /\ gen.max = MaxIndex /\ gen.strong = 1
    /\ Len(last.calls) = MaxIndex

\* C4: the cache holds keys of one pair only, the pair it names; a request
\* for a pair other than the cached one leaves the cache naming the requested
\* pair and computes the chain from Kdf.hash on.
C4_SinglePair ==
    /\ ratchetCache.defined
       => \A n \in DOMAIN ratchetCache.hashes :
             \E i \in 1..MaxIndex :
                /\ n = Num(i)
                /\ ratchetCache.hashes[n] = Chain(ratchetCache.key, ratchetCache.salt, i)
    /\ (IsRatchetRequest(last) /\ last.n > 0 /\ last.pre.defined /\ ~last.pre.same)
       => /\ ratchetCache.key = last.keyphrase /\ ratchetCache.salt = last.salt
          /\ last.calls = ChainCalls(last.keyphrase, last.salt, Reached(last.n))

\* The held blob was made for P1; another pair was cached since; P1 is asked
\* for again and its key is computed anew.
C4_Witness ==
    /\ held.kind = "metadata"
    /\ last.op = "decryptMetadata" /\ last.ok
    /\ last.keyphrase = held.keyphrase /\ last.salt = held.salt /\ last.n = held.n
    /\ last.pre.defined /\ ~last.pre.same
    /\ last.n = Num(2) /\ Len(last.calls) = 3

\* C5: encryptMetadata and decryptMetadata with a ratchet count <= 0 fail with
\* the ratchet count error, call neither the Kdf nor the random source nor
\* AES-GCM, and leave the cache as it was.
C5_InvalidCountStep ==
    (IsRatchetRequest(last') /\ last'.n <= 0)
    => /\ ~last'.ok /\ last'.err = ErrRatchetCount
       /\ last'.calls = <<>> /\ last'.rng = 0 /\ last'.aead = 0
       /\ ratchetCache' = ratchetCache

C5_InvalidCountFailsEarly == [][C5_InvalidCountStep]_vars

\* A failed request for a pair other than the cached one; the cache is kept.
C5_Witness ==
    /\ IsRatchetRequest(last) /\ last.n = Num(-1) /\ ~last.ok
    /\ last.pre.defined /\ ~last.pre.same
    /\ ratchetCache.defined /\ Num(2) \in DOMAIN ratchetCache.hashes

\* C6: a request whose ratchet count is smaller than 1 returns no key.
C6_BelowOneFails ==
    (IsRatchetRequest(last) /\ last.n < Num(1))
    => /\ last.mek = UndefinedBytes
       /\ ~last.ok

\* C10: decryptMetadata of a metadata blob with another keyphrase, salt or
\* ratchet count than the blob was encrypted with returns no metadata; it
\* fails, with the AES-GCM failure when it gets as far as decrypting.
C10_OnlySameTriple ==
    (/\ last.op = "decryptMetadata" /\ held.kind = "metadata" /\ last.tamper = NoTamper
     /\ <<last.keyphrase, last.salt, last.n>> # <<held.keyphrase, held.salt, held.n>>)
    => /\ ~last.ok
       /\ last.n > 0 => last.err = ErrOperation

(***************************************************************************)
(* Properties of the codec (checked under SpecCodec and SpecTamper).       *)
(***************************************************************************)
HasMember(x, name) ==
    x.t = "object" /\ \E i \in 1..Len(x.members) : x.members[i].name = name

\* The value is one JSON spells exactly: a string, a boolean, null or a
\* number that is not NaN.
JsonExact(x) ==
    \/ x.t \in {"string", "boolean", "null"}
    \/ x.t = "number" /\ x.v # "NaN"

\* decryptMetadata was given the held metadata blob as it is, with the triple
\* the blob was encrypted with, the ratchet count being at least 1.
MetadataRoundTrip ==
    /\ last.op = "decryptMetadata" /\ held.kind = "metadata" /\ last.tamper = NoTamper
    /\ last.keyphrase = held.keyphrase /\ last.salt = held.salt /\ last.n = held.n
    /\ last.n >= Num(1)

\* C7 as stated: every metadata object that contains contentKeyBase64 is
\* returned unchanged by decryptMetadata after encryptMetadata.
C7_RoundTripAnyObject ==
    (MetadataRoundTrip /\ HasMember(held.m, "contentKeyBase64"))
    => /\ last.ok
       /\ last.meta = held.m

\* C7 amended: a metadata object whose contentKeyBase64 is a non-empty string
\* and whose other fields hold values JSON spells exactly is returned
\* unchanged by decryptMetadata after encryptMetadata, whatever the cache
\* held before either call.
C7_RoundTripJsonExact ==
    (/\ MetadataRoundTrip
     /\ held.m.t = "object"
     /\ GetProp(held.m, "contentKeyBase64").t = "string"
     /\ GetProp(held.m, "contentKeyBase64").v # ""
     /\ \A i \in 1..Len(held.m.members) : JsonExact(held.m.members[i].value))
    => /\ last.ok
       /\ last.meta = held.m

\* A metadata object with a null field comes back, decrypted by a call that
\* found the other keyphrase's keys in the cache.
C7_Witness ==
    /\ MetadataRoundTrip
    /\ GetProp(held.m, "fileName") = JsNull
    /\ last.pre.defined /\ ~last.pre.same
    /\ last.ok /\ last.meta = held.m

\* C8: for a metadata m whose contentKeyBase64 decodes to 32 bytes and every
\* file f, the empty one included, decryptFile(m, encryptFile(m, f)) is f.
C8_FileRoundTrip ==
    (/\ last.op = "decryptFile" /\ held.kind = "file" /\ last.tamper = NoTamper
     /\ last.arg = held.m
     /\ ContentKey(held.m).ok /\ ByteLength(ContentKey(held.m).v) = 32)
    => /\ last.ok
       /\ last.bytes = held.f

C8_Witness ==
    /\ last.op = "decryptFile" /\ held.kind = "file" /\ last.tamper = NoTamper
    /\ last.arg = held.m
    /\ held.f = <<>>
    /\ Len(held.blob) = IvLen + TagLen
    /\ last.ok /\ last.bytes = <<>>

\* C9: a blob of encryptMetadata or encryptFile with one byte changed (in
\* the IV, the ciphertext or the tag) or cut short is refused by
\* decryptMetadata and decryptFile under the key it was encrypted with: the
\* call fails with the AES-GCM failure and returns nothing.
C9_TamperDetected ==
    (/\ last.tamper # NoTamper
     /\ \/ /\ last.op = "decryptMetadata" /\ held.kind = "metadata"
           /\ last.keyphrase = held.keyphrase /\ last.salt = held.salt
           /\ last.n = held.n
        \/ /\ last.op = "decryptFile" /\ held.kind = "file"
           /\ last.arg = held.m)
    => /\ ~last.ok /\ last.err = ErrOperation
       /\ last.meta = JsUndefined /\ last.bytes = <<>>

\* A file blob with a byte of its ciphertext changed was refused.
C9_Witness ==
    /\ last.op = "decryptFile" /\ held.kind = "file" /\ last.arg = held.m
    /\ Len(held.f) = MaxFileLen
    /\ last.tamper = [kind |-> "flip", pos |-> IvLen + 1]
    /\ ~last.ok /\ last.err = ErrOperation

\* The plaintext and the key of the held blob.
HeldPlaintext ==
    IF held.kind = "file" THEN held.f ELSE TextEncode(JsonStringify(held.m))
HeldKey ==
    IF held.kind = "file" THEN ContentKey(held.m).v
    ELSE RatchetKey(UndefinedCache, held.keyphrase, held.salt, held.n).key

\* C11: a blob of encryptMetadata or encryptFile is 16 bytes of IV (the IV
\* of that encryption), then as many ciphertext bytes as the plaintext has,
\* then 16 bytes of tag; decrypt reads the first 16 bytes as the IV and all
\* the rest as ciphertext and tag.
C11_BlobLayout ==
    held.kind # "none"
    => LET blob == held.blob
           n == Len(HeldPlaintext)
       IN  /\ Len(blob) = 16 + n + 16
           /\ SubSeq(blob, 1, 16) = GetRandomValues(held.r, 16)
           /\ \A j \in 1..n : blob[16 + j] = CtByte(HeldPlaintext[j])
           /\ SubSeq(blob, 16 + n + 1, Len(blob))
                = GcmTag(HeldKey, SubSeq(blob, 1, 16), SubSeq(blob, 17, 16 + n))
           /\ Decrypt(HeldKey, blob)
                = GcmDecrypt(HeldKey, SubSeq(blob, 1, 16), SubSeq(blob, 17, Len(blob)))
           /\ Decrypt(HeldKey, blob) = Ok(HeldPlaintext)

\* The blob of a file of the largest length, encrypted with the second IV.
C11_Witness ==
    /\ held.kind = "file" /\ Len(held.f) = MaxFileLen /\ MaxFileLen > 0
    /\ held.r = 100
    /\ last.op = "encryptFile" /\ last.ok
    /\ Len(held.blob) = 32 + MaxFileLen
    /\ held.blob[1] = 100

IsEncryption(c) == c.op \in {"encryptMetadata", "encryptFile"}

\* A step in which an encryption returned a blob draws from the random
\* source once, and the blob begins with the 16 bytes drawn in that step,
\* which are not those of the blob before when the source gave others; a
\* step of any other operation draws nothing and returns no blob.
C12_FreshIvStep ==
    /\ (IsEncryption(last') /\ last'.ok)
       => /\ last'.rng = 1
          /\ held'.kind # "none"
          /\ SubSeq(held'.blob, 1, 16) = GetRandomValues(held'.r, 16)
          /\ (held.kind # "none" /\ held'.r # held.r)
             => SubSeq(held'.blob, 1, 16) # SubSeq(held.blob, 1, 16)
    /\ (IsEncryption(last') /\ ~last'.ok) => (last'.rng <= 1 /\ held' = held)
    /\ ~IsEncryption(last') => (last'.rng = 0 /\ held' = held)

\* C12: every encryption draws one new 16-byte IV from the random source and
\* puts it at the head of its blob; no IV is kept from one call to the next.
C12_FreshIv == [][C12_FreshIvStep]_vars

\* A metadata blob made with the second state of the random source.
C12_Witness ==
    /\ last.op = "encryptMetadata" /\ last.ok /\ last.rng = 1
    /\ held.kind = "metadata" /\ held.r = 100
    /\ SubSeq(held.blob, 1, 16) = GetRandomValues(100, 16)

\* C13: Kdf.hash and Kdf.fastHash given neither a salt nor a hashed salt
\* fail with their missing-salt error, return no key and call neither
\* SHA-256 nor argon2.
C13_MissingSalt ==
    (/\ last.op \in {"Kdf.hash", "Kdf.fastHash"}
     /\ last.salt = UndefinedStr /\ last.hashedSalt = UndefinedBytes)
    => /\ ~last.ok
       /\ last.err = IF last.op = "Kdf.hash" THEN ErrMissingSaltHash
                     ELSE ErrMissingSaltFast
       /\ last.out = UndefinedBytes
       /\ last.provider = <<>>

\* Kdf.fastHash of a chain key, refused for want of a salt.
C13_Witness ==
    /\ last.op = "Kdf.fastHash"
    /\ last.pass = KdfHash("kA", "s1", UndefinedBytes).v
    /\ last.salt = UndefinedStr /\ last.hashedSalt = UndefinedBytes
    /\ ~last.ok /\ last.err = ErrMissingSaltFast /\ last.provider = <<>>

\* C14: encryptMetadata given a metadata that is not an object (a string, a
\* number, a boolean, null, undefined) fails with the invalid-shape error
\* and returns no blob.
C14_NonObjectRejected ==
    (/\ last.op = "encryptMetadata" /\ last.n >= Num(1)
     /\ last.arg.t # "object")
    => /\ ~last.ok
       /\ last.err = ErrMetadataShape

\* The plaintext of the held metadata blob is a JSON text, of a value that
\* is no object or has no contentKeyBase64, or an empty one.
HeldLacksContentKey ==
    /\ JsonStringify(held.m).defined
    /\ \/ held.m.t # "object"
       \/ GetProp(held.m, "contentKeyBase64") \in {JsUndefined, JsString("")}

\* C15: decryptMetadata returns no value without contentKeyBase64; given the
\* authentic blob of a plaintext without (or with an empty) contentKeyBase64,
\* a plaintext that is no object included, it fails with the
\* missing-content-key error.
C15_MissingContentKey ==
    /\ (last.op = "decryptMetadata" /\ last.ok)
       => /\ HasMember(last.meta, "contentKeyBase64")
          /\ GetProp(last.meta, "contentKeyBase64") # JsString("")
    /\ (MetadataRoundTrip /\ HeldLacksContentKey)
       => /\ ~last.ok
          /\ last.err = ErrContentKey

\* The contentKeyBase64 of the metadata decodes to exactly 32 bytes.
ContentKeyIs32(metadata) ==
    ContentKey(metadata).ok /\ ByteLength(ContentKey(metadata).v) = 32

\* C16: encryptFile and decryptFile fail for a metadata whose
\* contentKeyBase64 does not decode to exactly 32 bytes, and decryptMetadata
\* returns no metadata with such a content key.
C16_ContentKey32 ==
    /\ (last.op \in {"encryptFile", "decryptFile"} /\ ~ContentKeyIs32(last.arg))
       => ~last.ok
    /\ (last.op = "decryptMetadata" /\ last.ok) => ContentKeyIs32(last.meta)

(***************************************************************************)
(* Properties of Signature (checked under SpecSignature).                  *)
(***************************************************************************)
\* A step of createKeyPairFromKeyPhrase calls Kdf.hash once, with the
\* keyphrase and the raw salt and no hashed salt, returns the 32 bytes of
\* that strong hash as privateKey and the public key of it, and leaves the
\* ratchet cache alone, whatever the cache holds.
C17_KeyPairStep ==
    last'.op = "createKeyPairFromKeyPhrase"
    => /\ last'.ok
       /\ last'.calls
            = <<KdfCall("hash", Utf8(last'.keyphrase), last'.salt, UndefinedBytes, 0)>>
       /\ last'.privateKey
            = Argon2Hash(Utf8(last'.keyphrase), HashSalt(last'.salt),
                         StrongMem, StrongTime, HashLen)
       /\ ByteLength(last'.privateKey) = 32
       /\ last'.publicKey = PublicKeyOf(last'.privateKey, 0, 32)
       /\ ratchetCache' = ratchetCache

\* C17: createKeyPairFromKeyPhrase is a function of (keyphrase, salt) alone:
\* one strong hash with the raw salt, its result the private key, the public
\* key derived from it, the same after any ratchet, clear or encrypt.
C17_KeyPairDeterministic == [][C17_KeyPairStep]_vars

\* A keypair made for kA while the cache held the keys of kB.
C17_Witness ==
    /\ last.op = "createKeyPairFromKeyPhrase" /\ last.keyphrase = "kA"
    /\ last.salt = "s1"
    /\ last.pre.defined /\ ~last.pre.same
    /\ ratchetCache.defined /\ ratchetCache.key = "kB"
    /\ last.ok /\ last.privateKey = KdfHash("kA", "s1", UndefinedBytes).v

\* C18: verify is true for a message, the signature made of it with a
\* private key and the public key of that private key; it is false when the
\* message is another one, when the signature was altered, and when the
\* public key is that of another private key.
C18_SignVerify ==
    last.op = "verify"
    => \A privateKey \in PrivateKeys :
         /\ (/\ last.signature = SignAsync(last.message, privateKey).v
             /\ last.publicKey = GetPublicKeyAsync(privateKey).v)
            => (last.ok /\ last.valid)
         /\ (\E message \in Messages \ {last.message} :
                last.signature = SignAsync(message, privateKey).v)
            => (last.ok /\ ~last.valid)
         /\ last.signature = [SignAsync(last.message, privateKey).v EXCEPT !.x = 1]
            => (last.ok /\ ~last.valid)
         /\ (/\ last.signature = SignAsync(last.message, privateKey).v
             /\ \E other \in PrivateKeys \ {privateKey} :
                   last.publicKey = GetPublicKeyAsync(other).v)
            => (last.ok /\ ~last.valid)

\* A genuine signature of kB's key, verified with kB's public key.
C18_Witness ==
    /\ last.op = "verify" /\ last.message = "m2"
    /\ last.signature = SignAsync("m2", KdfHash("kB", "s1", UndefinedBytes).v).v
    /\ last.publicKey = GetPublicKeyAsync(KdfHash("kB", "s1", UndefinedBytes).v).v
    /\ last.ok /\ last.valid

\* C19: verify completes with a boolean, whatever message, signature and
\* public key it is given, malformed ones included.
C19_VerifyNeverThrows ==
    last.op = "verify" => last.ok

(***************************************************************************)
(* Forward-only isolation (checked under SpecAttacker).                    *)
(***************************************************************************)
\* The key the program uses for the metadata of index i.
KeyOfIndex(keyphrase, salt, i) == RatchetKey(UndefinedCache, keyphrase, salt, Num(i)).key

\* C20: the key that leaked is the key k_i of one position i of the chain;
\* a third party holding it and the salt, and not the keyphrase, gets
\* k_(j+1) from every k_j, j >= i, by one fastHash with the hashed salt, and
\* never holds a key k_j of a position j < i.
C20_ForwardOnly ==
    last.op \in AttackerOps
    => /\ KeyOfIndex(last.keyphrase, last.salt, Reached(last.n)) \in last.known
       /\ \A j \in 1..MaxIndex :
            j < Reached(last.n)
            => KeyOfIndex(last.keyphrase, last.salt, j) \notin last.known
       /\ \A j \in 1..(MaxIndex - 1) :
            (/\ j >= Reached(last.n)
             /\ KeyOfIndex(last.keyphrase, last.salt, j) \in KnownKeys)
            => KdfFastHash(KeyOfIndex(last.keyphrase, last.salt, j), UndefinedStr,
                           HashSalt(last.salt)).v
                 = KeyOfIndex(last.keyphrase, last.salt, j + 1)

\* The key of index 2 leaked; the third party holds the key of MaxIndex and
\* not the key of index 1.
C20_Witness ==
    /\ last.op \in AttackerOps /\ last.n = Num(2) /\ MaxIndex > 2
    /\ KeyOfIndex(last.keyphrase, last.salt, MaxIndex) \in last.known
    /\ KeyOfIndex(last.keyphrase, last.salt, 1) \notin last.known

IsFileOp(c) == c.op \in {"encryptFile", "decryptFile"}

\* A step of encryptFile or decryptFile, successful or not, calls nothing on
\* the Kdf and leaves the ratchet cache as it was.
C21_FileStep ==
    IsFileOp(last')
    => /\ last'.calls = <<>>
       /\ last'.mek = UndefinedBytes
       /\ ratchetCache' = ratchetCache
       /\ gen' = gen

\* C21: encryptFile and decryptFile derive no key and leave the ratchet
\* cache, its pair and its keys, unchanged, whether they succeed or fail.
C21_FileOpsNoRatchet == [][C21_FileStep]_vars

\* encryptFile failed while the cache held two keys of a pair.
C21_Witness ==
    /\ last.op = "encryptFile" /\ ~last.ok
    /\ ratchetCache.defined /\ ratchetCache.key = "kB"
    /\ DOMAIN ratchetCache.hashes = {Num(1), Num(2)}
    /\ last.calls = <<>>

IsContentKeyOp(c) == c.op \in {"createContentKey", "createContentKeyBase64"}

\* The content key of the held file is the text createContentKeyBase64 returned.
HeldKeyCreated ==
    /\ held.kind = "file"
    /\ \E r \in Seeds :
          GetProp(held.m, "contentKeyBase64")
              = JsString(FromByteArray(GetRandomValues(r, ContentKeyLen)))

\* One step of creating or using a created content key.
C22_ContentKeyStep ==
    /\ IsContentKeyOp(last')
       => /\ last'.ok /\ last'.rng = 1 /\ last'.calls = <<>>
          /\ last'.keyphrase = "" /\ last'.mek = UndefinedBytes
          /\ ratchetCache' = ratchetCache /\ gen' = gen
          /\ Len(last'.bytes) = ContentKeyLen
          /\ \A i \in 1..Len(last'.bytes) : last'.bytes[i] \in 0..255
    /\ last'.op = "createContentKeyBase64"
       => /\ last'.meta.t = "string"
          /\ ToByteArray(last'.meta).ok
          /\ ByteLength(ToByteArray(last'.meta).v) = ContentKeyLen
    /\ (last.op = "createContentKeyBase64" /\ last'.op = "encryptFile"
          /\ GetProp(last'.arg, "contentKeyBase64") = last.meta)
       => last'.ok
    /\ (HeldKeyCreated /\ last'.op = "decryptFile" /\ last'.arg = held.m)
       => last'.ok /\ last'.bytes = held.f

\* C22: createContentKey returns 32 bytes from one draw of the random
\* source and touches neither keyphrase, Kdf nor cache; the text
\* createContentKeyBase64 returns decodes to 32 bytes and encryptFile and
\* decryptFile work with it as the content key.
C22_ContentKey == [][C22_ContentKeyStep]_vars

\* A file encrypted under a created key was decrypted under it, while the
\* ratchet cache held a key.
C22_Witness ==
    /\ HeldKeyCreated
    /\ last.op = "decryptFile" /\ last.ok /\ last.arg = held.m
    /\ Len(held.f) > 0 /\ last.bytes = held.f
    /\ ratchetCache.defined /\ MapHas(ratchetCache.hashes, Num(1))

Failed(c) == c.op # "new" /\ ~c.ok

\* Which of the five failure conditions the inputs of the call c meet, the
\* held blob being the one handed to decryptMetadata; "none" otherwise.
Condition(c) ==
    IF c.op \in {"Kdf.hash", "Kdf.fastHash"}
    THEN IF c.salt = UndefinedStr /\ c.hashedSalt = UndefinedBytes
         THEN "MissingSalt" ELSE "none"
    ELSE IF c.op \notin {"encryptMetadata", "decryptMetadata"} THEN "none"
    ELSE IF c.n <= 0 THEN "InvalidRatchetCount"
    ELSE IF c.op = "encryptMetadata"
    THEN IF c.arg.t # "object" THEN "InvalidMetadataShape" ELSE "none"
    ELSE IF held.kind # "metadata" THEN "none"
    ELSE IF \/ c.tamper # NoTamper
            \/ <<c.keyphrase, c.salt, c.n>> # <<held.keyphrase, held.salt, held.n>>
    THEN "AuthenticationFailure"
    ELSE IF HeldLacksContentKey THEN "MissingContentKey"
    ELSE "none"

\* Two failures in a row, under two different conditions, have different
\* kinds.
C23_DistinctStep ==
    (/\ Failed(last) /\ Failed(last')
     /\ Condition(last) # "none" /\ Condition(last)' # "none"
     /\ Condition(last) # Condition(last)')
    => ErrorName(last.err) # ErrorName(last'.err)

\* C23: missing salt, invalid ratchet count, invalid metadata shape, missing
\* content key and authentication failure surface as five distinct kinds of
\* error: failures under two different conditions never have the same kind.
C23_DistinctKinds == [][C23_DistinctStep]_vars

\* Every key in the cache is the key of its index in the chain of the pair
\* the cache records.
CacheOfItsPair ==
    \A i \in DOMAIN ratchetCache.hashes :
        ratchetCache.hashes[i] = Chain(ratchetCache.key, ratchetCache.salt, i \div Den)

\* The completed ratchetKey call returned the key of its index in the chain
\* of its pair.
ReturnedChainKey ==
    last.ok /\ last.mek = Chain(last.keyphrase, last.salt, last.n \div Den)

\* C24: whatever the overlap of ratchetKey calls for different pairs, every
\* key in the cache is k_i of the pair the cache records, and every call
\* that returns, returns k_N of its own pair.
C24_NoCrossContamination ==
    /\ CacheOfItsPair
    /\ (last.op = "ratchetKey" /\ last.ok) => ReturnedChainKey

\* The Kdf calls a ratchetKey call for (keyphrase, salt) may make.
ChainCallSet(keyphrase, salt) ==
    LET calls == ChainCalls(keyphrase, salt, MaxIndex)
    IN  {calls[j] : j \in 1..Len(calls)}

\* C25: overlapping calls for one pair each return k_N, leave in the cache
\* only keys k_i at index i, and make no Kdf call but those of the chain.
C25_SamePairSafe ==
    /\ CacheOfItsPair
    /\ last.op = "ratchetKey"
       => /\ ReturnedChainKey
          /\ \A j \in 1..Len(last.calls) :
                last.calls[j] \in ChainCallSet(last.keyphrase, last.salt)

\* The strong hash is among the Kdf calls.
MadeStrongHash(calls) == \E j \in 1..Len(calls) : calls[j].fn = "hash"

\* A call returned k_3 after computing the strong hash, while another call
\* for the pair, suspended in its loop, had computed the strong hash too.
C25_Witness ==
    /\ last.op = "ratchetKey" /\ last.ok /\ last.n = Num(3)
    /\ MadeStrongHash(last.calls)
    /\ \E p \in Requests :
          /\ frames[p].pc = "fastHash"
          /\ MadeStrongHash(frames[p].calls)

\* C26: a ratchetKey call with an index >= 1, none of whose Kdf calls is
\* rejected, returns k_index, also when clearRatchetCache runs while it is
\* suspended.
C26_CompletesDespiteClear ==
    (last.op = "ratchetKey" /\ last.n >= Num(1)) => ReturnedChainKey

\* One step seen from clearRatchetCache: what it leaves, and what the steps
\* that find no cache do.
C27_ClearStep ==
    /\ last'.op = "clearRatchetCache"
       => /\ ~ratchetCache'.defined
          /\ ratchetCache'.key = "" /\ ratchetCache'.salt = ""
          /\ DOMAIN ratchetCache'.hashes = {}
    /\ (~ratchetCache.defined /\ ratchetCache'.defined)
       => IsRatchetRequest(last') /\ last'.n >= Num(1)
    /\ (~ratchetCache.defined /\ IsRatchetRequest(last') /\ last'.n >= Num(1))
       => /\ last'.calls = ChainCalls(last'.keyphrase, last'.salt, last'.n \div Den)
          /\ ratchetCache'.defined
          /\ ratchetCache'.key = last'.keyphrase /\ ratchetCache'.salt = last'.salt
          /\ DOMAIN ratchetCache'.hashes = {Num(i) : i \in 1..(last'.n \div Den)}

\* C27: after clearRatchetCache no pair and no key is cached; the next
\* ratchet request, for whichever pair, computes its chain from the strong
\* hash on, and only a ratchet request creates the cache again.
C27_ClearDestroysCache == [][C27_ClearStep]_vars

\* The held metadata was encrypted under a pair, the cache was cleared, and
\* the decryption for the same pair found no cache and computed the chain
\* from the strong hash on.
C27_Witness ==
    /\ held.kind = "metadata" /\ held.n = Num(2)
    /\ last.op = "decryptMetadata" /\ last.ok
    /\ <<last.keyphrase, last.salt, last.n>> = <<held.keyphrase, held.salt, held.n>>
    /\ ~last.pre.defined
    /\ MadeStrongHash(last.calls)
    /\ DOMAIN ratchetCache.hashes = {Num(1), Num(2)}

SamePair(c, d) == c.keyphrase = d.keyphrase /\ c.salt = d.salt

\* One step seen from the cache as the one slot of all instances.
C28_SharedStep ==
    /\ (/\ last.op = "ratchetKey" /\ last.ok
        /\ last'.op = "ratchetKey" /\ last'.inst # last.inst
        /\ SamePair(last', last) /\ last'.n = last.n)
       => /\ last'.ok /\ last'.calls = <<>>
          /\ last'.mek = last.mek
    /\ (/\ ratchetCache.defined /\ ratchetCache'.defined
        /\ <<ratchetCache'.key, ratchetCache'.salt>> # <<ratchetCache.key, ratchetCache.salt>>)
       => /\ DOMAIN ratchetCache'.hashes = {}
          /\ \E p \in Requests :
                /\ frames'[p].pc = "hashSalt"
                /\ <<frames'[p].key, frames'[p].salt>>
                       = <<ratchetCache'.key, ratchetCache'.salt>>
    /\ (last'.op = "ratchetKey" /\ last'.ok /\ ~last'.pre.same)
       => MadeStrongHash(last'.calls)

\* C28: the cache is one slot for all instances: the key one instance
\* cached is returned to another instance asking for the same keyphrase,
\* salt and index, with no call on that instance's Kdf, and a call through
\* any instance for another pair leaves no key of the pair cached before.
C28_OneSharedSlot == [][C28_SharedStep]_vars

\* Instance 2 got k_2 of a pair from the cache, without a Kdf call, right
\* after instance 1 had computed it.
C28_Witness ==
    /\ last.op = "ratchetKey" /\ last.ok /\ last.inst = 2 /\ last.n = Num(2)
    /\ last.before = [inst |-> 1, n |-> Num(2), computed |-> TRUE]
    /\ last.calls = <<>>
    /\ last.pre.same /\ last.pre.cached = {Num(1), Num(2)}
    /\ last.mek = Chain(last.keyphrase, last.salt, 2)

\* C30: with calls and clears one after the other, whether the calls return
\* or fail in the middle of the chain, the cached indices are 1..M for an
\* M >= 0.
C30_CachedPrefix ==
    \E M \in 0..MaxIndex : DOMAIN ratchetCache.hashes = {Num(i) : i \in 1..M}

\* A call for index 3 failed at its last fastHash, the indices 1 and 2
\* stay cached.
C30_Witness ==
    /\ last.op = "ratchetKey" /\ ~last.ok /\ last.err = ErrKdf /\ last.n = Num(3)
    /\ Len(last.calls) = 4
    /\ DOMAIN ratchetCache.hashes = {Num(1), Num(2)}

\* The call on the password-hashing provider among the provider calls.
Argon2Call(calls) == calls[Len(calls)]

\* C29: the key of index 1 of a pair is the private key of the pair's
\* signing keypair: createKeyPairFromKeyPhrase returns the key the cache
\* holds at index 1 for the pair, a metadata request for index 1 uses the
\* strong hash of keyphrase and raw salt, and Kdf.hash hands the provider
\* the same password, salt digest and cost with the raw salt as with its
\* precomputed digest.
C29_FirstKeyIsPrivateKey ==
    /\ (/\ last.op = "createKeyPairFromKeyPhrase" /\ last.ok
        /\ last.pre.same /\ Num(1) \in last.pre.cached)
       => /\ last.privateKey = MapGet(ratchetCache.hashes, Num(1))
          /\ ByteLength(last.privateKey) = 32
    /\ (last.op = "encryptMetadata" /\ last.ok /\ last.n = Num(1))
       => /\ last.mek = KdfHash(last.keyphrase, last.salt, UndefinedBytes).v
          /\ Argon2Call(KdfProviderCalls(Utf8(last.keyphrase), last.salt, UndefinedBytes))
               = Argon2Call(KdfProviderCalls(Utf8(last.keyphrase), UndefinedStr,
                                             HashSalt(last.salt)))

\* A keypair was made for the pair whose keys k_1 and k_2 the cache holds,
\* and its private key is the cached k_1.
C29_Witness ==
    /\ last.op = "createKeyPairFromKeyPhrase" /\ last.ok
    /\ last.keyphrase = "kB" /\ last.salt = "s1"
    /\ last.pre.same /\ last.pre.cached = {Num(1), Num(2)}
    /\ last.privateKey = ratchetCache.hashes[Num(1)]
    /\ last.privateKey # ratchetCache.hashes[Num(2)]

====
